---- MODULE Spec2Model ----
(***************************************************************************)
(* Model of the aDDM toolbox: the trial simulator run_simulations          *)
(* (src/addm.py, src/simulate_addm_true_distributions.py) and the          *)
(* per-trial likelihood engine analysis_per_trial (src/addm.py).           *)
(*                                                                         *)
(* Time is in milliseconds and integer.  The RDV axis is integer: one unit *)
(* is the resolution of the model.  A Gaussian sample is a choice among a  *)
(* few increments that can leave the barrier interval in either direction  *)
(* from every interior value, or leave the RDV to its drift.               *)
(***************************************************************************)
EXTENDS Integers, Sequences, FiniteSets, TLC

VARIABLES
    \* ---- run_simulations: arguments that vary between runs
    numTrials, visualDelay, distLatencies, numFixDists, emptyCells,
    \* ---- run_simulations: returned dictionaries (functions on their key sets)
    rt, choice, valueLeft, valueRight, fixItem, fixTime, fixRDV,
    uninterruptedLastFixTime,
    \* ---- run_simulations: locals
    pc, cond, trial, trialCount, RDV, trialTime, latency, t, currFixItem,
    currFixTime, fixNumber, trialFinished, trialAborted, transitionTime,
    \* ---- history: some attempt of this run was discarded (latency or
    \* transition abort)
    discarded,
    \* ---- run_simulations: the exception that ended the run, if any
    raised,
    \* ---- history: for each trial index, the RDV steps of its current attempt
    \* since its latency was sampled, each as the item whose drift the step
    \* carried (0 for a step without drift)
    steps,
    \* ---- history: for each trial index, the draws of the item fixations of
    \* its current attempt, each as <<key of distFixations, valueDiff, sample>>
    draws,
    \* ---- analysis_per_trial: its arguments (a record) and its locals
    arg, pcA, std, correctedFixItem, correctedFixTime, maxTime, states,
    prStates, probUpCrossing, probDownCrossing, time, likelihood,
    \* ---- analysis_per_trial: how the call ended and the value returned
    outcome, retval,
    \* ---- a pair of calls of analysis_per_trial: the rank of the current call
    \* and how the first call ended
    call, first,
    \* ---- get_empirical_distributions: its arguments (a record), its position,
    \* its locals and what it returns
    gedArg, pcG, trialG, iG, excludeCount, latencyG, firstItemFixReached,
    fixNumberG, countLeftFirst, countTotalTrials, distLatenciesList,
    distTransitionsList, distFixationsList, outcomeG, probLeftFixFirst,
    \* ---- main of simulate_addm_true_distributions: its position, the rank i
    \* of the iteration, the distribution objects (by identity) and the
    \* names bound to them and the tallies
    pcC, iter, heap, empiricalFixDist, trueFixDist, countLastFix, countTotal

simOut == <<rt, choice, valueLeft, valueRight, fixItem, fixTime, fixRDV,
            uninterruptedLastFixTime>>
simArgs == <<numTrials, visualDelay, distLatencies, numFixDists, emptyCells>>
simLocals == <<pc, cond, trial, trialCount, RDV, trialTime, latency, t,
               currFixItem, currFixTime, fixNumber, trialFinished,
               trialAborted, transitionTime, discarded>>
simVars == <<simArgs, simOut, simLocals, raised, steps, draws>>
apVars == <<arg, pcA, std, correctedFixItem, correctedFixTime, maxTime, states,
            prStates, probUpCrossing, probDownCrossing, time, likelihood,
            outcome, retval, call, first>>
gedVars == <<gedArg, pcG, trialG, iG, excludeCount, latencyG,
             firstItemFixReached, fixNumberG, countLeftFirst, countTotalTrials,
             distLatenciesList, distTransitionsList, distFixationsList,
             outcomeG, probLeftFixFirst>>
corVars == <<pcC, iter, heap, empiricalFixDist, trueFixDist, countLastFix,
             countTotal>>
toolVars == <<gedVars, corVars>>
vars == <<simVars, apVars, toolVars>>

----------------------------------------------------------------------------
(* Bounds of the model *)

\* a trial attempt records at most MaxFix item fixations
MaxFix == 2

(* Arguments of run_simulations held fixed *)
timeStep == 2
barrier == 8
motorDelay == 1
d == 4
theta == 0

trialConditions == << <<1, 0>>, <<0, 1>> >>
\* the runs explored: numTrials, visualDelay, the latencies of distLatencies,
\* numFixDists and the cells <<fixNumber, valueDiff>> of distFixations that
\* hold no sample; the last run has a visual delay of two time bins, longer
\* than the first fixation sampled
Runs ==
    {[numTrials |-> 0, visualDelay |-> 0, distLatencies |-> {1, 3},
      numFixDists |-> 2, emptyCells |-> {}],
     [numTrials |-> 1, visualDelay |-> 0, distLatencies |-> {1, 3},
      numFixDists |-> 2, emptyCells |-> {}],
     [numTrials |-> 1, visualDelay |-> 2, distLatencies |-> {1, 3},
      numFixDists |-> 2, emptyCells |-> {}],
     [numTrials |-> 2, visualDelay |-> 0, distLatencies |-> {3},
      numFixDists |-> 2, emptyCells |-> {}],
     [numTrials |-> 2, visualDelay |-> 2, distLatencies |-> {3},
      numFixDists |-> 2, emptyCells |-> {}],
     [numTrials |-> 1, visualDelay |-> 0, distLatencies |-> {3},
      numFixDists |-> 1, emptyCells |-> {}],
     [numTrials |-> 1, visualDelay |-> 0, distLatencies |-> {3},
      numFixDists |-> 2, emptyCells |-> {<<2, -1>>}],
     [numTrials |-> 1, visualDelay |-> 4, distLatencies |-> {3},
      numFixDists |-> 2, emptyCells |-> {}]}
\* the items np.random.choice([1, 2], p=probLeftRight) can return
FirstItems == {1, 2}
distTransitions == {3}
\* the keys of distFixations: one distribution per fixation number
FixationKeys == 1..numFixDists
\* Time bins of the fixation distributions of simulate_addm_true_distributions
binStep == 2
NumBins == 3
bins == {binStep * k : k \in 1..NumBins}
\* the samples np.random.choice(bins, p=prob) can return: the bins of the
\* distribution dist of positive probability
Support(dist) == {b \in bins : dist[b][1] > 0}
\* samples of distFixations[fixNumber][valueDiff].  In a run of addm.py each
\* fixation number has a duration of its own; in a run called by the
\* corrector the samples are the bins of the current distribution object.
distFixations(n, valueDiff) ==
    IF pcC # "off" THEN Support(heap[empiricalFixDist][<<n, valueDiff>>])
    ELSE IF <<n, valueDiff>> \in emptyCells THEN {} ELSE {1 + (2 * n)}
\* no exception
NoError == [type |-> "none", cell |-> <<>>]
\* the exception of np.random.choice(distFixations[n][valueDiff]), if any: a
\* KeyError that carries the missing key n, or the ValueError of numpy for an
\* empty array, which carries no cell
SampleError(n, valueDiff) ==
    IF n \notin FixationKeys THEN [type |-> "KeyError", cell |-> <<n>>]
    ELSE IF distFixations(n, valueDiff) = {}
    THEN [type |-> "ValueError", cell |-> <<>>]
    ELSE NoError
\* the increments np.random.normal(mean, std) can add beyond the mean
Noise == {-16, 0, 16}

----------------------------------------------------------------------------
(* Helpers *)

\* dict[key] = value
Put(dict, key, value) ==
    [k \in DOMAIN dict \cup {key} |-> IF k = key THEN value ELSE dict[k]]

\* Hit without the test of the lower barrier
HitUpperOnly(r) == r >= barrier

\* RDV >= barrier or RDV <= -barrier
Hit(r) == r >= barrier \/ r <= -barrier

\* fixUnfixValueDiffs = {1: vLeft - vRight, 2: vRight - vLeft}
vLeft == trialConditions[cond][1]
vRight == trialConditions[cond][2]
fixUnfixValueDiffs(item) == IF item = 1 THEN vLeft - vRight ELSE vRight - vLeft

\* mean of the drift while fixating item
Mean(item) ==
    IF item = 1 THEN d * (vLeft - (theta * vRight))
    ELSE IF item = 2 THEN d * ((-vRight) + (theta * vLeft))
    ELSE 0

\* x - (x % timeStep)
Truncated(x) == x - (x % timeStep)

\* int(x // timeStep) as the length of an xrange: no iteration when negative
Bins(x) == IF x \div timeStep > 0 THEN x \div timeStep ELSE 0

RECURSIVE SumSeq(_)
SumSeq(s) == IF s = <<>> THEN 0 ELSE Head(s) + SumSeq(Tail(s))

NumItemFix(items) == Cardinality({i \in DOMAIN items : items[i] \in {1, 2}})

----------------------------------------------------------------------------
(* run_simulations *)

SimInit ==
    /\ \E run \in Runs :
        /\ numTrials = run.numTrials
        /\ visualDelay = run.visualDelay
        /\ distLatencies = run.distLatencies
        /\ numFixDists = run.numFixDists
        /\ emptyCells = run.emptyCells
    /\ discarded = FALSE
    /\ raised = NoError
    /\ steps = <<>>
    /\ draws = <<>>
    /\ rt = <<>> /\ choice = <<>> /\ valueLeft = <<>> /\ valueRight = <<>>
    /\ fixItem = <<>> /\ fixTime = <<>> /\ fixRDV = <<>>
    /\ uninterruptedLastFixTime = <<>>
    /\ pc = "trialLoop"
    /\ cond = 1
    /\ trial = 0
    /\ trialCount = 0
    /\ RDV = 0 /\ trialTime = 0 /\ latency = 0 /\ t = 0
    /\ currFixItem = 0 /\ currFixTime = 0 /\ fixNumber = 0
    /\ trialFinished = FALSE /\ trialAborted = FALSE
    /\ transitionTime = 0

\* StartTrial that creates the lists of an index once and keeps them when the
\* index is attempted again
StartTrialKeepsRecord ==
    /\ pc = "trialLoop"
    /\ cond <= Len(trialConditions)
    /\ trial < numTrials
    /\ IF trialCount \in DOMAIN fixItem
       THEN UNCHANGED <<fixItem, fixTime, fixRDV>>
       ELSE /\ fixItem' = Put(fixItem, trialCount, <<>>)
            /\ fixTime' = Put(fixTime, trialCount, <<>>)
            /\ fixRDV' = Put(fixRDV, trialCount, <<>>)
    /\ RDV' = 0
    /\ steps' = Put(steps, trialCount, <<>>)
    /\ draws' = Put(draws, trialCount, <<>>)
    /\ trialTime' = 0
    /\ trialAborted' = FALSE
    /\ pc' = "latency"
    /\ UNCHANGED <<toolVars, apVars, simArgs, raised, discarded, rt, choice, valueLeft, valueRight,
                   uninterruptedLastFixTime, cond, trial, trialCount, latency,
                   t, currFixItem, currFixTime, fixNumber, trialFinished,
                   transitionTime>>

\* while trial < numTrials: a new attempt at index trialCount
StartTrial ==
    /\ pc = "trialLoop"
    /\ cond <= Len(trialConditions)
    /\ trial < numTrials
    /\ fixItem' = Put(fixItem, trialCount, <<>>)
    /\ fixTime' = Put(fixTime, trialCount, <<>>)
    /\ fixRDV' = Put(fixRDV, trialCount, <<>>)
    /\ RDV' = 0
    /\ steps' = Put(steps, trialCount, <<>>)
    /\ draws' = Put(draws, trialCount, <<>>)
    /\ trialTime' = 0
    /\ trialAborted' = FALSE
    /\ pc' = "latency"
    /\ UNCHANGED <<toolVars, apVars, simArgs, raised, discarded, rt, choice, valueLeft, valueRight,
                   uninterruptedLastFixTime, cond, trial, trialCount, latency,
                   t, currFixItem, currFixTime, fixNumber, trialFinished,
                   transitionTime>>

\* the while loop of a condition ends: next trialCondition, trial = 0
NextCondition ==
    /\ pc = "trialLoop"
    /\ cond <= Len(trialConditions)
    /\ ~(trial < numTrials)
    /\ cond' = cond + 1
    /\ trial' = 0
    /\ UNCHANGED <<toolVars, apVars, simArgs, steps, draws, raised, discarded, simOut, pc, trialCount, RDV, trialTime, latency, t,
                   currFixItem, currFixTime, fixNumber, trialFinished,
                   trialAborted, transitionTime>>

\* the for loop over trialConditions is exhausted: return simul(...)
Return ==
    /\ pc = "trialLoop"
    /\ cond > Len(trialConditions)
    /\ pc' = "done"
    /\ UNCHANGED <<toolVars, apVars, simArgs, steps, draws, raised, discarded, simOut, cond, trial, trialCount, RDV, trialTime,
                   latency, t, currFixItem, currFixTime, fixNumber,
                   trialFinished, trialAborted, transitionTime>>

\* LatencyAppended that adds the whole latency to the elapsed time and the
\* truncated latency to fixTime
LatencyAppendedUntruncated(r, lat) ==
    /\ fixRDV' = Put(fixRDV, trialCount, Append(fixRDV[trialCount], r))
    /\ fixItem' = Put(fixItem, trialCount, Append(fixItem[trialCount], 0))
    /\ fixTime' = Put(fixTime, trialCount,
                      Append(fixTime[trialCount], Truncated(lat)))
    /\ trialTime' = trialTime + lat

\* the latency is added to the trial's data
LatencyAppended(r, lat) ==
    /\ fixRDV' = Put(fixRDV, trialCount, Append(fixRDV[trialCount], r))
    /\ fixItem' = Put(fixItem, trialCount, Append(fixItem[trialCount], 0))
    /\ fixTime' = Put(fixTime, trialCount,
                      Append(fixTime[trialCount], Truncated(lat)))
    /\ trialTime' = trialTime + Truncated(lat)

\* latency = np.random.choice(distLatencies)
SampleLatency ==
    /\ pc = "latency"
    /\ \E l \in distLatencies :
        /\ latency' = l
        /\ t' = 0
        /\ IF Bins(l) = 0
           THEN /\ LatencyAppended(RDV, l)
                /\ pc' = "firstFix"
           ELSE /\ pc' = "latencyLoop"
                /\ UNCHANGED <<fixRDV, fixItem, fixTime, trialTime>>
    /\ UNCHANGED <<toolVars, apVars, simArgs, steps, draws, raised, discarded, rt, choice, valueLeft, valueRight,
                   uninterruptedLastFixTime, cond, trial, trialCount, RDV,
                   currFixItem, currFixTime, fixNumber, trialFinished,
                   trialAborted, transitionTime>>

\* LatencyStep whose barrier hit leaves the RDV where it is
LatencyStepKeepsRDV ==
    /\ pc = "latencyLoop"
    /\ t < Bins(latency)
    /\ \E eps \in Noise :
        LET r == RDV + eps IN
        IF Hit(r)
        THEN /\ RDV' = r
             /\ trialAborted' = FALSE
             /\ pc' = "latency"
             /\ discarded' = TRUE
             /\ steps' = Put(steps, trialCount, <<>>)
             /\ UNCHANGED <<t, fixRDV, fixItem, fixTime, trialTime>>
        ELSE /\ RDV' = r
             /\ UNCHANGED <<trialAborted, discarded>>
             /\ steps' = Put(steps, trialCount, Append(steps[trialCount], 0))
             /\ IF t + 1 < Bins(latency)
                THEN /\ t' = t + 1
                     /\ pc' = "latencyLoop"
                     /\ UNCHANGED <<fixRDV, fixItem, fixTime, trialTime>>
                ELSE /\ t' = t
                     /\ LatencyAppended(r, latency)
                     /\ pc' = "firstFix"
    /\ UNCHANGED <<toolVars, apVars, simArgs, draws, raised, rt, choice, valueLeft, valueRight,
                   uninterruptedLastFixTime, cond, trial, trialCount, latency,
                   currFixItem, currFixTime, fixNumber, trialFinished,
                   transitionTime>>

\* one bin of the latency: a barrier hit discards the latency, RDV = 0
LatencyStep ==
    /\ pc = "latencyLoop"
    /\ t < Bins(latency)
    /\ \E eps \in Noise :
        LET r == RDV + eps IN
        IF Hit(r)
        THEN /\ RDV' = 0
             /\ trialAborted' = FALSE
             /\ pc' = "latency"
             /\ discarded' = TRUE
             /\ steps' = Put(steps, trialCount, <<>>)
             /\ UNCHANGED <<t, fixRDV, fixItem, fixTime, trialTime>>
        ELSE /\ RDV' = r
             /\ UNCHANGED <<trialAborted, discarded>>
             /\ steps' = Put(steps, trialCount, Append(steps[trialCount], 0))
             /\ IF t + 1 < Bins(latency)
                THEN /\ t' = t + 1
                     /\ pc' = "latencyLoop"
                     /\ UNCHANGED <<fixRDV, fixItem, fixTime, trialTime>>
                ELSE /\ t' = t
                     /\ LatencyAppended(r, latency)
                     /\ pc' = "firstFix"
    /\ UNCHANGED <<toolVars, apVars, simArgs, draws, raised, rt, choice, valueLeft, valueRight,
                   uninterruptedLastFixTime, cond, trial, trialCount, latency,
                   currFixItem, currFixTime, fixNumber, trialFinished,
                   transitionTime>>

\* the first fixation of the trial is sampled
SampleFirstFixation ==
    /\ pc = "firstFix"
    /\ \E item \in FirstItems :
        /\ currFixItem' = item
        /\ raised' = SampleError(1, fixUnfixValueDiffs(item))
        /\ IF raised' = NoError
           THEN /\ \E sample \in distFixations(1, fixUnfixValueDiffs(item)) :
                     /\ currFixTime' = sample - visualDelay
                     /\ draws' = Put(draws, trialCount,
                                      Append(draws[trialCount],
                                             <<1, fixUnfixValueDiffs(item),
                                               sample>>))
                /\ fixNumber' = 2
                /\ trialFinished' = FALSE
                /\ trialAborted' = FALSE
                /\ t' = 0
                /\ pc' = "visualDelay"
           ELSE /\ pc' = "raised"
                /\ UNCHANGED <<currFixTime, fixNumber, trialFinished,
                               trialAborted, t, draws>>
    /\ UNCHANGED <<toolVars, apVars, simArgs, steps, discarded, simOut, cond, trial, trialCount, RDV, trialTime,
                   latency, transitionTime>>

\* Crossed with the choices exchanged: +1 for the upper barrier
CrossedUpperIsRight(r, elapsed) ==
    /\ choice' = Put(choice, trialCount, IF r >= barrier THEN 1 ELSE -1)
    /\ valueLeft' = Put(valueLeft, trialCount, vLeft)
    /\ valueRight' = Put(valueRight, trialCount, vRight)
    /\ fixRDV' = Put(fixRDV, trialCount, Append(fixRDV[trialCount], r))
    /\ fixItem' = Put(fixItem, trialCount,
                      Append(fixItem[trialCount], currFixItem))
    /\ fixTime' = Put(fixTime, trialCount,
                      Append(fixTime[trialCount], elapsed))
    /\ trialTime' = trialTime + elapsed
    /\ rt' = Put(rt, trialCount, trialTime + elapsed)
    /\ uninterruptedLastFixTime' =
           Put(uninterruptedLastFixTime, trialCount, currFixTime)
    /\ trialFinished' = TRUE

\* the barrier was hit during an item fixation: the trial is over
Crossed(r, elapsed) ==
    /\ choice' = Put(choice, trialCount, IF r >= barrier THEN -1 ELSE 1)
    /\ valueLeft' = Put(valueLeft, trialCount, vLeft)
    /\ valueRight' = Put(valueRight, trialCount, vRight)
    /\ fixRDV' = Put(fixRDV, trialCount, Append(fixRDV[trialCount], r))
    /\ fixItem' = Put(fixItem, trialCount,
                      Append(fixItem[trialCount], currFixItem))
    /\ fixTime' = Put(fixTime, trialCount,
                      Append(fixTime[trialCount], elapsed))
    /\ trialTime' = trialTime + elapsed
    /\ rt' = Put(rt, trialCount, trialTime + elapsed)
    /\ uninterruptedLastFixTime' =
           Put(uninterruptedLastFixTime, trialCount, currFixTime)
    /\ trialFinished' = TRUE

\* one bin of the visual delay of the current fixation (no drift)
VisualDelayStep ==
    /\ pc = "visualDelay"
    /\ t < Bins(visualDelay)
    /\ \E eps \in Noise :
        LET r == RDV + eps IN
        /\ RDV' = r
        /\ steps' = Put(steps, trialCount, Append(steps[trialCount], 0))
        /\ IF Hit(r)
           THEN /\ Crossed(r, ((t + 1) * timeStep) + motorDelay)
                /\ pc' = "endTrial"
                /\ t' = t
           ELSE /\ t' = t + 1
                /\ pc' = "visualDelay"
                /\ UNCHANGED <<simOut, trialTime, trialFinished>>
    /\ UNCHANGED <<toolVars, apVars, simArgs, draws, raised, discarded, cond, trial, trialCount, latency, currFixItem,
                   currFixTime, fixNumber, trialAborted, transitionTime>>

\* the visual delay is over without a barrier hit
VisualDelayDone ==
    /\ pc = "visualDelay"
    /\ ~(t < Bins(visualDelay))
    /\ t' = 0
    /\ pc' = "fixation"
    /\ UNCHANGED <<toolVars, apVars, simArgs, steps, draws, raised, discarded, simOut, cond, trial, trialCount, RDV, trialTime,
                   latency, currFixItem, currFixTime, fixNumber, trialFinished,
                   trialAborted, transitionTime>>

\* one bin of the drift-bearing part of the current fixation
FixationStep ==
    /\ pc = "fixation"
    /\ t < Bins(currFixTime)
    /\ \E eps \in Noise :
        LET r == RDV + Mean(currFixItem) + eps IN
        /\ RDV' = r
        /\ steps' = Put(steps, trialCount,
                         Append(steps[trialCount], currFixItem))
        /\ IF Hit(r)
           THEN /\ Crossed(r, ((t + 1) * timeStep) + visualDelay + motorDelay)
                /\ pc' = "endTrial"
                /\ t' = t
           ELSE /\ t' = t + 1
                /\ pc' = "fixation"
                /\ UNCHANGED <<simOut, trialTime, trialFinished>>
    /\ UNCHANGED <<toolVars, apVars, simArgs, draws, raised, discarded, cond, trial, trialCount, latency, currFixItem,
                   currFixTime, fixNumber, trialAborted, transitionTime>>

\* the fixation that ended without a barrier hit is added to the data of the
\* trial (items, times, rdvs, elapsed) and a transition is sampled
FixationAppended(items, times, rdvs, elapsed) ==
    /\ fixRDV' = Put(fixRDV, trialCount, Append(rdvs, RDV))
    /\ fixItem' = Put(fixItem, trialCount, Append(items, currFixItem))
    /\ fixTime' = Put(fixTime, trialCount,
                      Append(times, Truncated(currFixTime) + visualDelay))
    /\ trialTime' = elapsed + Truncated(currFixTime) + visualDelay
    /\ \E tr \in distTransitions : transitionTime' = tr
    /\ t' = 0
    /\ pc' = "transition"

\* the fixation ended without a barrier hit (the attempt stays within MaxFix
\* item fixations)
FixationDone ==
    /\ pc = "fixation"
    /\ ~(t < Bins(currFixTime))
    /\ NumItemFix(fixItem[trialCount]) + 1 < MaxFix
    /\ FixationAppended(fixItem[trialCount], fixTime[trialCount],
                        fixRDV[trialCount], trialTime)
    /\ UNCHANGED <<toolVars, apVars, simArgs, steps, draws, raised, discarded, rt, choice, valueLeft,
                   valueRight, uninterruptedLastFixTime, cond, trial,
                   trialCount, RDV, latency, currFixItem, currFixTime,
                   fixNumber, trialFinished, trialAborted>>

\* a record without its oldest fixation and transition (entries 2 and 3)
Forget(s) == <<s[1]>> \o SubSeq(s, 4, Len(s))

\* the steps of a record without those of its oldest fixation and transition
ForgetSteps(ss, times) ==
    LET kept == Bins(times[1])
        gone == (Bins(visualDelay) + Bins(times[2] - visualDelay))
                    + Bins(times[3])
    IN SubSeq(ss, 1, kept) \o SubSeq(ss, (kept + gone) + 1, Len(ss))

\* the fixation ended without a barrier hit in an attempt that already holds
\* MaxFix - 1 item fixations: the loop goes on as in FixationDone, on a record
\* that forgets its oldest fixation and transition, so that the unbounded loop
\* stays within a finite state space
FixationPastBound ==
    /\ pc = "fixation"
    /\ ~(t < Bins(currFixTime))
    /\ ~(NumItemFix(fixItem[trialCount]) + 1 < MaxFix)
    /\ FixationAppended(Forget(fixItem[trialCount]),
                        Forget(fixTime[trialCount]),
                        Forget(fixRDV[trialCount]),
                        (trialTime - fixTime[trialCount][2])
                            - fixTime[trialCount][3])
    /\ steps' = Put(steps, trialCount,
                     ForgetSteps(steps[trialCount], fixTime[trialCount]))
    /\ draws' = Put(draws, trialCount, Tail(draws[trialCount]))
    /\ UNCHANGED <<toolVars, apVars, simArgs, raised, discarded, rt, choice, valueLeft,
                   valueRight, uninterruptedLastFixTime, cond, trial,
                   trialCount, RDV, latency, currFixItem, currFixTime,
                   fixNumber, trialFinished, trialAborted>>

\* TransitionStep whose barrier hit ends the trial without marking it aborted
TransitionStepKeepsTrial ==
    /\ pc = "transition"
    /\ t < Bins(transitionTime)
    /\ \E eps \in Noise :
        LET r == RDV + eps IN
        /\ RDV' = r
        /\ steps' = Put(steps, trialCount, Append(steps[trialCount], 0))
        /\ IF Hit(r)
           THEN /\ trialFinished' = TRUE
                /\ discarded' = TRUE
                /\ pc' = "endTrial"
                /\ t' = t
                /\ UNCHANGED trialAborted
           ELSE /\ t' = t + 1
                /\ pc' = "transition"
                /\ UNCHANGED <<trialFinished, trialAborted, discarded>>
    /\ UNCHANGED <<toolVars, apVars, simArgs, draws, raised, simOut, cond, trial, trialCount, trialTime,
                   latency, currFixItem, currFixTime, fixNumber,
                   transitionTime>>

\* one bin of the transition: a barrier hit aborts the trial
TransitionStep ==
    /\ pc = "transition"
    /\ t < Bins(transitionTime)
    /\ \E eps \in Noise :
        LET r == RDV + eps IN
        /\ RDV' = r
        /\ steps' = Put(steps, trialCount, Append(steps[trialCount], 0))
        /\ IF Hit(r)
           THEN /\ trialFinished' = TRUE
                /\ trialAborted' = TRUE
                /\ discarded' = TRUE
                /\ pc' = "endTrial"
                /\ t' = t
           ELSE /\ t' = t + 1
                /\ pc' = "transition"
                /\ UNCHANGED <<trialFinished, trialAborted, discarded>>
    /\ UNCHANGED <<toolVars, apVars, simArgs, draws, raised, simOut, cond, trial, trialCount, trialTime,
                   latency, currFixItem, currFixTime, fixNumber,
                   transitionTime>>

\* the transition ended without a barrier hit: it is added to the trial's
\* data and the next fixation is sampled
TransitionDone ==
    /\ pc = "transition"
    /\ ~(t < Bins(transitionTime))
    /\ fixRDV' = Put(fixRDV, trialCount, Append(fixRDV[trialCount], RDV))
    /\ fixItem' = Put(fixItem, trialCount, Append(fixItem[trialCount], 0))
    /\ fixTime' = Put(fixTime, trialCount,
                      Append(fixTime[trialCount], Truncated(transitionTime)))
    /\ trialTime' = trialTime + Truncated(transitionTime)
    /\ LET item == IF currFixItem = 1 THEN 2
                   ELSE IF currFixItem = 2 THEN 1 ELSE currFixItem
       IN /\ currFixItem' = item
          /\ raised' = SampleError(fixNumber, fixUnfixValueDiffs(item))
          /\ IF raised' = NoError
             THEN /\ \E sample \in distFixations(fixNumber,
                                                 fixUnfixValueDiffs(item)) :
                       /\ currFixTime' = sample - visualDelay
                       /\ draws' = Put(draws, trialCount,
                                        Append(draws[trialCount],
                                               <<fixNumber,
                                                 fixUnfixValueDiffs(item),
                                                 sample>>))
                  /\ fixNumber' = IF fixNumber < numFixDists
                                  THEN fixNumber + 1 ELSE fixNumber
                  /\ t' = 0
                  /\ pc' = "visualDelay"
             ELSE /\ pc' = "raised"
                  /\ UNCHANGED <<currFixTime, fixNumber, t, draws>>
    /\ UNCHANGED <<toolVars, apVars, simArgs, steps, discarded, rt, choice, valueLeft, valueRight,
                   uninterruptedLastFixTime, cond, trial, trialCount, RDV,
                   latency, trialFinished, trialAborted, transitionTime>>

\* EndTrial without the test of trialAborted: an aborted attempt is counted as
\* a trial too
EndTrialCountsAborted ==
    /\ pc = "endTrial"
    /\ trial' = trial + 1
    /\ trialCount' = trialCount + 1
    /\ pc' = "trialLoop"
    /\ latency' = 0 /\ t' = 0 /\ currFixItem' = 0 /\ currFixTime' = 0
    /\ fixNumber' = 0 /\ trialFinished' = FALSE /\ transitionTime' = 0
    /\ UNCHANGED <<toolVars, apVars, simArgs, steps, draws, raised, discarded, simOut, cond, RDV, trialTime, trialAborted>>

\* EndTrial with the test of trialAborted inverted: only aborted attempts are
\* counted
EndTrialCountsOnlyAborted ==
    /\ pc = "endTrial"
    /\ IF trialAborted
       THEN /\ trial' = trial + 1
            /\ trialCount' = trialCount + 1
       ELSE UNCHANGED <<trial, trialCount>>
    /\ pc' = "trialLoop"
    /\ latency' = 0 /\ t' = 0 /\ currFixItem' = 0 /\ currFixTime' = 0
    /\ fixNumber' = 0 /\ trialFinished' = FALSE /\ transitionTime' = 0
    /\ UNCHANGED <<toolVars, apVars, simArgs, steps, draws, raised, discarded, simOut, cond, RDV, trialTime, trialAborted>>

\* if not trialAborted: trial += 1; trialCount += 1
\* The locals of the attempt that every later path assigns before reading
\* (latency, t, currFixItem, currFixTime, fixNumber, trialFinished,
\* transitionTime) are dead here and are not carried over.
EndTrial ==
    /\ pc = "endTrial"
    /\ IF ~trialAborted
       THEN /\ trial' = trial + 1
            /\ trialCount' = trialCount + 1
       ELSE UNCHANGED <<trial, trialCount>>
    /\ pc' = "trialLoop"
    /\ latency' = 0 /\ t' = 0 /\ currFixItem' = 0 /\ currFixTime' = 0
    /\ fixNumber' = 0 /\ trialFinished' = FALSE /\ transitionTime' = 0
    /\ UNCHANGED <<toolVars, apVars, simArgs, steps, draws, raised, discarded, simOut, cond, RDV, trialTime, trialAborted>>

SimNext ==
    \/ StartTrial
    \/ NextCondition
    \/ Return
    \/ SampleLatency
    \/ LatencyStep
    \/ SampleFirstFixation
    \/ VisualDelayStep
    \/ VisualDelayDone
    \/ FixationStep
    \/ FixationDone
    \/ TransitionStep
    \/ TransitionDone
    \/ EndTrial

----------------------------------------------------------------------------
(* Numbers of analysis_per_trial                                           *)
(* A float is modelled by the fraction it approximates, <<n, dn>> in       *)
(* lowest terms with dn > 0 and computed exactly, or by NaN.  NaN          *)
(* propagates through arithmetic and every comparison with NaN is false.   *)

NaN == <<0, 0>>
Zero == <<0, 1>>
One == <<1, 1>>
IsNaN(x) == x[2] = 0
Abs(n) == IF n < 0 THEN -n ELSE n
Min(a, b) == IF a < b THEN a ELSE b
Max(a, b) == IF a > b THEN a ELSE b

RECURSIVE Gcd(_, _)
Gcd(a, b) == IF b = 0 THEN a ELSE Gcd(b, a % b)

Frac(n, dn) == LET g == Gcd(Abs(n), dn) IN <<n \div g, dn \div g>>
Num(i) == <<i, 1>>

Plus(x, y) ==
    IF IsNaN(x) \/ IsNaN(y) THEN NaN
    ELSE LET g == Gcd(x[2], y[2])
         IN Frac((x[1] * (y[2] \div g)) + (y[1] * (x[2] \div g)),
                 (x[2] \div g) * y[2])

Minus(x, y) == IF IsNaN(y) THEN NaN ELSE Plus(x, <<-y[1], y[2]>>)

Times(x, y) ==
    IF IsNaN(x) \/ IsNaN(y) THEN NaN
    ELSE LET g1 == Gcd(Abs(x[1]), y[2])
             g2 == Gcd(Abs(y[1]), x[2])
         IN <<(x[1] \div g1) * (y[1] \div g2), (x[2] \div g2) * (y[2] \div g1)>>

\* x / y on numpy floats: 0 / 0 is NaN (a warning, no exception); the model
\* never divides a non-zero number by zero
Over(x, y) ==
    IF IsNaN(x) \/ IsNaN(y) \/ y[1] = 0 THEN NaN
    ELSE Times(x, IF y[1] > 0 THEN <<y[2], y[1]>> ELSE <<-y[2], -y[1]>>)

Less(x, y) == ~IsNaN(x) /\ ~IsNaN(y) /\ x[1] * y[2] < y[1] * x[2]
Leq(x, y) == ~IsNaN(x) /\ ~IsNaN(y) /\ x[1] * y[2] <= y[1] * x[2]
Gt0(x) == ~IsNaN(x) /\ x[1] > 0

\* np.sum
RECURSIVE Sum(_)
Sum(xs) == IF xs = <<>> THEN Zero ELSE Plus(Head(xs), Sum(Tail(xs)))

\* scipy.stats.norm.pdf(x, mean, sd): NaN unless sd > 0; otherwise a positive,
\* symmetric, bell-shaped density, here in steps of 1 / (8 sd)
NormPdf(x, mean, sd) ==
    IF sd <= 0 THEN NaN
    ELSE LET z == Abs(x - mean)
         IN Frac(IF 2 * z <= sd THEN 3 ELSE IF z <= sd THEN 2 ELSE 1, 8 * sd)

\* scipy.stats.norm.cdf(x, mean, sd): NaN unless sd > 0; otherwise
\* non-decreasing in x, within (0, 1), with cdf(mean + z) + cdf(mean - z) = 1,
\* here in steps of 1 / 8
NormCdf(x, mean, sd) ==
    IF sd <= 0 THEN NaN
    ELSE LET z == x - mean
         IN Frac(IF z < -sd THEN 1 ELSE IF z < 0 THEN 3 ELSE IF z = 0 THEN 4
                 ELSE IF z <= sd THEN 5 ELSE 7, 8)

----------------------------------------------------------------------------
(* analysis_per_trial: the calls explored *)

\* fixItem and fixTime of the trial
ApTrials ==
    {[fixItem |-> <<>>, fixTime |-> <<>>],
     [fixItem |-> <<1>>, fixTime |-> <<2>>],
     [fixItem |-> <<1>>, fixTime |-> <<4>>],
     [fixItem |-> <<0, 1>>, fixTime |-> <<2, 5>>],
     [fixItem |-> <<1, 0, 2>>, fixTime |-> <<1, 3, 2>>],
     [fixItem |-> <<2, 0>>, fixTime |-> <<3, 2>>]}
ApValues == {<<1, 0>>, <<1, 1>>}
ApChoices == {-1, 0, 1}
ApThetas == {0, 1}
\* std and mu, with d = 4
ApNoise == {[std |-> 4, mu |-> 0], [std |-> 0, mu |-> 0], [std |-> 0, mu |-> 1],
            [std |-> -4, mu |-> 0], [std |-> 0, mu |-> -1]}
\* stateStep and barrier: a grid with one state in the snapping band, a grid
\* with three, a grid with none and a grid whose barrier is no multiple of
\* stateStep
ApGrids == {[stateStep |-> 4, barrier |-> 8], [stateStep |-> 1, barrier |-> 2],
            [stateStep |-> 4, barrier |-> 6], [stateStep |-> 4, barrier |-> 9]}
ApVisualDelays == {0, 2}
ApMotorDelays == {0, 1}

\* decay = 0 means barriers are constant
decay == 0
\* states within 0.01 of zero are set to zero
SnapBand == 2

----------------------------------------------------------------------------
(* analysis_per_trial *)

\* the parameters are under-determined: std == 0 and mu == 0
Underdetermined(s, m) == s = 0 /\ m = 0

\* std, or mu * d when std == 0
ResolvedStd(a) == IF a.std = 0 THEN a.mu * a.d ELSE a.std

\* VisualCorrected whose blank lasts the whole visual delay: visualDelay for
\* min(visualDelay, fixTime[i])
RECURSIVE VisualCorrectedFullDelay(_, _, _)
VisualCorrectedFullDelay(items, times, vd) ==
    IF items = <<>> THEN <<>>
    ELSE LET i == Head(items)
             tm == Head(times)
             rest == VisualCorrectedFullDelay(Tail(items), Tail(times), vd)
         IN IF vd > 0 /\ (i = 1 \/ i = 2)
            THEN << <<0, vd>>, <<i, Max(tm - vd, 0)>> >> \o rest
            ELSE << <<i, tm>> >> \o rest

\* the fixations with the visual delay discounted, as <<item, time>> pairs
RECURSIVE VisualCorrected(_, _, _)
VisualCorrected(items, times, vd) ==
    IF items = <<>> THEN <<>>
    ELSE LET i == Head(items)
             tm == Head(times)
             rest == VisualCorrected(Tail(items), Tail(times), vd)
         IN IF vd > 0 /\ (i = 1 \/ i = 2)
            THEN << <<0, Min(vd, tm)>>, <<i, Max(tm - vd, 0)>> >> \o rest
            ELSE << <<i, tm>> >> \o rest

\* the index of the last item fixation, 0 when there is none
LastItemFix(items) ==
    LET at == {i \in DOMAIN items : items[i] = 1 \/ items[i] = 2}
    IN IF at = {} THEN 0 ELSE CHOOSE i \in at : \A j \in at : j <= i

\* MotorCorrected that discounts the motor delay from the last entry, whatever
\* its item
MotorCorrectedLastEntry(items, times, md) ==
    IF md > 0 /\ Len(times) > 0
    THEN [times EXCEPT ![Len(times)] = Max(@ - md, 0)]
    ELSE times

\* the motor delay discounted from the last item fixation
MotorCorrected(items, times, md) ==
    IF md > 0 /\ LastItemFix(items) # 0
    THEN [times EXCEPT ![LastItemFix(items)] = Max(@ - md, 0)]
    ELSE times

CorrectedFixItem(a) ==
    LET c == VisualCorrected(a.fixItem, a.fixTime, a.visualDelay)
    IN [i \in DOMAIN c |-> c[i][1]]

CorrectedFixTime(a) ==
    LET c == VisualCorrected(a.fixItem, a.fixTime, a.visualDelay)
    IN MotorCorrected(CorrectedFixItem(a), [i \in DOMAIN c |-> c[i][2]],
                      a.motorDelay)

\* maxTime: the sum of int(fTime // timeStep)
RECURSIVE MaxTime(_)
MaxTime(times) ==
    IF times = <<>> THEN 0 ELSE (Head(times) \div timeStep) + MaxTime(Tail(times))

\* the trial has no time bin
NoTimeOnlyBelowZero(m) == m < 0
NoTime(m) == m = 0

\* barrierUp[tt] and barrierDown[tt]
barrierUp(tt) == arg.barrier \div (1 + (decay * (tt + 1)))
barrierDown(tt) == (-arg.barrier) \div (1 + (decay * (tt + 1)))

\* np.arange(start, stop, step)
Arange(start, stop, step) ==
    [k \in 1..(((stop - start) + (step - 1)) \div step) |->
        start + ((k - 1) * step)]

\* the state grid: states within the band around zero are set to 0
States(a) ==
    LET raw == Arange(-a.barrier, a.barrier + a.stateStep, a.stateStep)
    IN [k \in DOMAIN raw |->
          IF raw[k] < SnapBand /\ raw[k] > -SnapBand THEN 0 ELSE raw[k]]

\* probability 1 for the states equal to 0, 0 for all others
InitialPrStates(ss) == [k \in DOMAIN ss |-> IF ss[k] = 0 THEN One ELSE Zero]

\* the item of the fixation that holds time bin k (from 0)
RECURSIVE ItemAt(_, _, _)
ItemAt(items, times, k) ==
    IF items = <<>> THEN 0
    ELSE IF k < Head(times) \div timeStep THEN Head(items)
    ELSE ItemAt(Tail(items), Tail(times), k - (Head(times) \div timeStep))

\* the mean of the change in RDV while fItem is fixated
MeanOf(fItem) ==
    IF fItem = 1 THEN arg.d * (arg.valueLeft - (arg.theta * arg.valueRight))
    ELSE IF fItem = 2
    THEN arg.d * ((-arg.valueRight) + (arg.theta * arg.valueLeft))
    ELSE 0

\* prStatesNew before renormalization: the states strictly inside the barriers
PrStatesNew(mean) ==
    [s \in DOMAIN states |->
        IF states[s] > barrierDown(time) /\ states[s] < barrierUp(time)
        THEN Times(Num(arg.stateStep),
                   Sum([a \in DOMAIN states |->
                          Times(prStates[a],
                                NormPdf(states[s] - states[a], mean, std))]))
        ELSE Zero]

\* TempUpCross with the tail probability negated: cdf - 1 for 1 - cdf
TempUpCrossNegated(mean) ==
    Sum([a \in DOMAIN states |->
           Times(prStates[a],
                 Minus(NormCdf(barrierUp(time) - states[a], mean, std), One))])

\* tempUpCross before renormalization
TempUpCross(mean) ==
    Sum([a \in DOMAIN states |->
           Times(prStates[a],
                 Minus(One, NormCdf(barrierUp(time) - states[a], mean, std)))])

\* tempDownCross before renormalization
TempDownCross(mean) ==
    Sum([a \in DOMAIN states |->
           Times(prStates[a],
                 NormCdf(barrierDown(time) - states[a], mean, std))])

\* (x * float(sumIn)) / float(sumCurrent)
Renormalized(x, sumIn, sumCurrent) == Over(Times(x, sumIn), sumCurrent)

\* Likelihood with the barriers exchanged: the lower barrier for choice -1
LikelihoodLeftIsLower(c, up, down) ==
    IF c = -1 THEN (IF Gt0(down) THEN down ELSE Zero)
    ELSE IF c = 1 THEN (IF Gt0(up) THEN up ELSE Zero)
    ELSE Zero

\* the likelihood of the observed choice from the last entries of the traces
Likelihood(c, up, down) ==
    IF c = -1 THEN (IF Gt0(up) THEN up ELSE Zero)
    ELSE IF c = 1 THEN (IF Gt0(down) THEN down ELSE Zero)
    ELSE Zero

ApInit ==
    /\ \E tr \in ApTrials, v \in ApValues, c \in ApChoices, th \in ApThetas,
          n \in ApNoise, g \in ApGrids, vd \in ApVisualDelays,
          md \in ApMotorDelays, plot \in BOOLEAN :
        arg = [choice |-> c, valueLeft |-> v[1], valueRight |-> v[2],
               fixItem |-> tr.fixItem, fixTime |-> tr.fixTime, d |-> 4,
               theta |-> th, std |-> n.std, mu |-> n.mu,
               stateStep |-> g.stateStep, barrier |-> g.barrier,
               visualDelay |-> vd, motorDelay |-> md, plotResults |-> plot]
    /\ pcA = "start"
    /\ std = 0
    /\ correctedFixItem = <<>> /\ correctedFixTime = <<>>
    /\ maxTime = 0
    /\ states = <<>> /\ prStates = <<>>
    /\ probUpCrossing = <<>> /\ probDownCrossing = <<>>
    /\ time = 0
    /\ likelihood = Zero
    /\ outcome = "running"
    /\ retval = Zero
    /\ call = 1
    /\ first = [outcome |-> "running", retval |-> Zero]

\* the head of analysis_per_trial, up to the first time bin: the early
\* returns, the corrected fixations, the grid and the initial beliefs
ApStart ==
    /\ pcA = "start"
    /\ IF Underdetermined(arg.std, arg.mu)
       THEN /\ outcome' = "returned"
            /\ retval' = Zero
            /\ pcA' = "done"
            /\ UNCHANGED <<std, correctedFixItem, correctedFixTime, maxTime,
                           states, prStates, probUpCrossing, probDownCrossing>>
       ELSE /\ std' = ResolvedStd(arg)
            /\ correctedFixItem' = CorrectedFixItem(arg)
            /\ correctedFixTime' = CorrectedFixTime(arg)
            /\ maxTime' = MaxTime(CorrectedFixTime(arg))
            /\ IF NoTime(MaxTime(CorrectedFixTime(arg)))
               THEN /\ outcome' = "returned"
                    /\ retval' = Zero
                    /\ pcA' = "done"
                    /\ UNCHANGED <<states, prStates, probUpCrossing,
                                   probDownCrossing>>
               ELSE /\ states' = States(arg)
                    /\ prStates' = InitialPrStates(States(arg))
                    /\ probUpCrossing' =
                           [k \in 1..MaxTime(CorrectedFixTime(arg)) |-> Zero]
                    /\ probDownCrossing' =
                           [k \in 1..MaxTime(CorrectedFixTime(arg)) |-> Zero]
                    /\ pcA' = "loop"
                    /\ UNCHANGED <<outcome, retval>>
    /\ UNCHANGED <<toolVars, simVars, arg, time, likelihood, call, first>>

\* one time bin of the forward propagation
ApStep ==
    /\ pcA = "loop"
    /\ time < maxTime
    /\ LET mean == MeanOf(ItemAt(correctedFixItem, correctedFixTime, time))
           prStatesNew == PrStatesNew(mean)
           tempUpCross == TempUpCross(mean)
           tempDownCross == TempDownCross(mean)
           sumIn == Sum(prStates)
           sumCurrent == Plus(Plus(Sum(prStatesNew), tempUpCross),
                              tempDownCross)
       IN /\ prStates' = [s \in DOMAIN states |->
                            Renormalized(prStatesNew[s], sumIn, sumCurrent)]
          /\ probUpCrossing' =
                 [probUpCrossing EXCEPT
                     ![time + 1] = Renormalized(tempUpCross, sumIn, sumCurrent)]
          /\ probDownCrossing' =
                 [probDownCrossing EXCEPT
                     ![time + 1] =
                         Renormalized(tempDownCross, sumIn, sumCurrent)]
    /\ time' = time + 1
    /\ UNCHANGED <<toolVars, simVars, arg, pcA, std, correctedFixItem, correctedFixTime,
                   maxTime, states, likelihood, outcome, retval, call, first>>

\* the likelihood of the observed choice, the plots, the return
ApFinish ==
    /\ pcA = "loop"
    /\ ~(time < maxTime)
    /\ IF Len(probUpCrossing) = 0
       THEN \* probUpCrossing[-1] of an empty array
            /\ outcome' = "IndexError"
            /\ UNCHANGED <<likelihood, retval>>
       ELSE /\ likelihood' =
                   Likelihood(arg.choice, probUpCrossing[Len(probUpCrossing)],
                              probDownCrossing[Len(probDownCrossing)])
            /\ IF arg.plotResults
               THEN \* initialBarrierDown is not defined
                    /\ outcome' = "NameError"
                    /\ UNCHANGED retval
               ELSE /\ outcome' = "returned"
                    /\ retval' = likelihood'
    /\ pcA' = "done"
    /\ UNCHANGED <<toolVars, simVars, arg, std, correctedFixItem, correctedFixTime,
                   maxTime, states, prStates, probUpCrossing, probDownCrossing,
                   time, call, first>>

ApNext == ApStart \/ ApStep \/ ApFinish

\* the arguments of the mirrored call: left and right exchanged in the item
\* codes, the item values and the choice
Mirrored(a) ==
    [a EXCEPT !.choice = -a.choice,
              !.valueLeft = a.valueRight,
              !.valueRight = a.valueLeft,
              !.fixItem = [i \in DOMAIN a.fixItem |->
                              IF a.fixItem[i] = 1 THEN 2
                              ELSE IF a.fixItem[i] = 2 THEN 1
                              ELSE a.fixItem[i]]]

\* once the first call has ended, analysis_per_trial is called again on the
\* mirrored arguments
ApMirrorCall ==
    /\ pcA = "done"
    /\ call = 1
    /\ call' = 2
    /\ first' = [outcome |-> outcome, retval |-> retval]
    /\ arg' = Mirrored(arg)
    /\ pcA' = "start"
    /\ std' = 0
    /\ correctedFixItem' = <<>> /\ correctedFixTime' = <<>>
    /\ maxTime' = 0
    /\ states' = <<>> /\ prStates' = <<>>
    /\ probUpCrossing' = <<>> /\ probDownCrossing' = <<>>
    /\ time' = 0
    /\ likelihood' = Zero
    /\ outcome' = "running"
    /\ retval' = Zero
    /\ UNCHANGED <<toolVars, simVars>>

SymNext == ApNext \/ ApMirrorCall

\* the noise and the grid step of the likelihood engine when it analyses
\* simulated trials: a grid of the two barriers and the state 0
PipeStd == 4
PipeStateStep == 8

\* a trial returned by run_simulations is handed to analysis_per_trial with
\* the timeStep, visualDelay, motorDelay, d, theta and barrier of the run
AnalyseTrial ==
    /\ pc = "done"
    /\ pcA = "off"
    /\ \E k \in DOMAIN rt :
          arg' = [choice |-> choice[k], valueLeft |-> valueLeft[k],
                  valueRight |-> valueRight[k], fixItem |-> fixItem[k],
                  fixTime |-> fixTime[k], d |-> d, theta |-> theta,
                  std |-> PipeStd, mu |-> 0, stateStep |-> PipeStateStep,
                  barrier |-> barrier, visualDelay |-> visualDelay,
                  motorDelay |-> motorDelay, plotResults |-> FALSE]
    /\ pcA' = "start"
    /\ UNCHANGED <<toolVars, simVars, std, correctedFixItem, correctedFixTime, maxTime,
                   states, prStates, probUpCrossing, probDownCrossing, time,
                   likelihood, outcome, retval, call, first>>

PipeNext == SimNext \/ AnalyseTrial \/ ApNext

----------------------------------------------------------------------------
(* get_empirical_distributions: the calls explored *)

\* the trials of the corpus: fixItem, fixTime and the values of the two items
GedTrials ==
    {[fixItem |-> <<0, 1, 0, 2>>, fixTime |-> <<2, 4, 2, 6>>,
      valueLeft |-> 1, valueRight |-> 0],
     [fixItem |-> <<0, 2, 0, 1, 0, 2>>, fixTime |-> <<3, 1, 2, 4, 1, 5>>,
      valueLeft |-> 1, valueRight |-> 0],
     [fixItem |-> <<0, 1>>, fixTime |-> <<2, 4>>,
      valueLeft |-> 0, valueRight |-> 1],
     [fixItem |-> <<1, 0, 2, 0, 1, 0>>, fixTime |-> <<4, 7, 7, 2, 6, 2>>,
      valueLeft |-> 0, valueRight |-> 1]}
\* the corpus has at most MaxTrials trials
MaxTrials == 2
GedCorpora ==
    UNION {[1..n -> GedTrials] : n \in 0..MaxTrials}
GedNumFixDists == {1, 2, 3}
\* fixations longer than maxFixTime are left out of the distributions
maxFixTime == 6
\* valueDiffs = range(-3, 4, 1)
valueDiffs == -3..3

----------------------------------------------------------------------------
(* get_empirical_distributions *)

\* the trial at position k of the corpus; its key is its position
GedTrial == gedArg.corpus[trialG]

\* the trial is left out: its parity is not asked for, or it has one item
\* fixation or less
GedSkipped(k, tr) ==
    \/ ~gedArg.useOddTrials /\ k % 2 # 0
    \/ ~gedArg.useEvenTrials /\ k % 2 = 0
    \/ NumItemFix(tr.fixItem) <= 1

\* excludeCount: the number of entries from the last item fixation on
ExcludeCount(items) ==
    IF LastItemFix(items) = 0 THEN Len(items)
    ELSE (Len(items) - LastItemFix(items)) + 1

\* the time is within the range kept in the distributions
Kept(tm) == tm >= timeStep /\ tm <= maxFixTime

GedInit ==
    /\ \E corpus \in GedCorpora, n \in GedNumFixDists,
          odd \in BOOLEAN, even \in BOOLEAN :
          gedArg = [corpus |-> corpus, numFixDists |-> n,
                    useOddTrials |-> odd, useEvenTrials |-> even]
    /\ pcG = "trials"
    /\ trialG = 1
    /\ iG = 0
    /\ excludeCount = 0
    /\ latencyG = 0
    /\ firstItemFixReached = FALSE
    /\ fixNumberG = 1
    /\ countLeftFirst = 0
    /\ countTotalTrials = 0
    /\ distLatenciesList = <<>>
    /\ distTransitionsList = <<>>
    /\ distFixationsList =
           [c \in (1..gedArg.numFixDists) \X valueDiffs |-> <<>>]
    /\ outcomeG = "running"
    /\ probLeftFixFirst = Zero

\* for trial in trials: a trial that is left out
GedSkipTrial ==
    /\ pcG = "trials"
    /\ trialG <= Len(gedArg.corpus)
    /\ GedSkipped(trialG, GedTrial)
    /\ trialG' = trialG + 1
    /\ UNCHANGED <<corVars, simVars, apVars, gedArg, pcG, iG, excludeCount, latencyG,
                   firstItemFixReached, fixNumberG, countLeftFirst,
                   countTotalTrials, distLatenciesList, distTransitionsList,
                   distFixationsList, outcomeG, probLeftFixFirst>>

\* for trial in trials: a trial that is tabulated; its last item fixation is
\* found
GedEnterTrial ==
    /\ pcG = "trials"
    /\ trialG <= Len(gedArg.corpus)
    /\ ~GedSkipped(trialG, GedTrial)
    /\ excludeCount' = ExcludeCount(GedTrial.fixItem)
    /\ latencyG' = 0
    /\ firstItemFixReached' = FALSE
    /\ fixNumberG' = 1
    /\ iG' = 0
    /\ pcG' = "fixations"
    /\ UNCHANGED <<corVars, simVars, apVars, gedArg, trialG, countLeftFirst,
                   countTotalTrials, distLatenciesList, distTransitionsList,
                   distFixationsList, outcomeG, probLeftFixFirst>>

\* an entry of the trial that is no item fixation
GedBlank(tm) ==
    /\ IF ~firstItemFixReached
       THEN /\ latencyG' = latencyG + tm
            /\ UNCHANGED distTransitionsList
       ELSE /\ distTransitionsList' =
                   (IF Kept(tm) THEN Append(distTransitionsList, tm)
                    ELSE distTransitionsList)
            /\ UNCHANGED latencyG
    /\ UNCHANGED <<firstItemFixReached, fixNumberG, countLeftFirst,
                   countTotalTrials, distLatenciesList, distFixationsList>>

\* an entry of the trial that is an item fixation
GedItem(item, tm, valueDiff) ==
    /\ firstItemFixReached' = TRUE
    /\ distLatenciesList' =
           (IF ~firstItemFixReached THEN Append(distLatenciesList, latencyG)
            ELSE distLatenciesList)
    /\ countTotalTrials' =
           (IF fixNumberG = 1 THEN countTotalTrials + 1 ELSE countTotalTrials)
    /\ countLeftFirst' =
           (IF fixNumberG = 1 /\ item = 1 THEN countLeftFirst + 1
            ELSE countLeftFirst)
    /\ distFixationsList' =
           (IF Kept(tm)
            THEN [distFixationsList EXCEPT
                     ![<<fixNumberG, valueDiff>>] = Append(@, tm)]
            ELSE distFixationsList)
    /\ fixNumberG' = (IF fixNumberG < gedArg.numFixDists THEN fixNumberG + 1
                      ELSE fixNumberG)
    /\ UNCHANGED <<latencyG, distTransitionsList>>

\* one entry of the trial, up to its last item fixation (left out)
GedFixation ==
    /\ pcG = "fixations"
    /\ iG < Len(GedTrial.fixItem) - excludeCount
    /\ LET item == GedTrial.fixItem[iG + 1]
           tm == GedTrial.fixTime[iG + 1]
       IN IF item # 1 /\ item # 2
          THEN GedBlank(tm)
          ELSE GedItem(item, tm,
                       IF item = 1
                       THEN GedTrial.valueLeft - GedTrial.valueRight
                       ELSE GedTrial.valueRight - GedTrial.valueLeft)
    /\ iG' = iG + 1
    /\ UNCHANGED <<corVars, simVars, apVars, gedArg, pcG, trialG, excludeCount,
                   outcomeG, probLeftFixFirst>>

\* the entries of the trial are exhausted: next trial
GedTrialDone ==
    /\ pcG = "fixations"
    /\ ~(iG < Len(GedTrial.fixItem) - excludeCount)
    /\ trialG' = trialG + 1
    /\ pcG' = "trials"
    /\ UNCHANGED <<corVars, simVars, apVars, gedArg, iG, excludeCount, latencyG,
                   firstItemFixReached, fixNumberG, countLeftFirst,
                   countTotalTrials, distLatenciesList, distTransitionsList,
                   distFixationsList, outcomeG, probLeftFixFirst>>

\* probLeftFixFirst = float(countLeftFirst) / float(countTotalTrials) and the
\* return of the distributions
GedReturn ==
    /\ pcG = "trials"
    /\ ~(trialG <= Len(gedArg.corpus))
    /\ IF countTotalTrials = 0
       THEN /\ outcomeG' = "ZeroDivisionError"
            /\ UNCHANGED probLeftFixFirst
       ELSE /\ outcomeG' = "returned"
            /\ probLeftFixFirst' = Frac(countLeftFirst, countTotalTrials)
    /\ pcG' = "done"
    /\ UNCHANGED <<corVars, simVars, apVars, gedArg, trialG, iG, excludeCount,
                   latencyG, firstItemFixReached, fixNumberG, countLeftFirst,
                   countTotalTrials, distLatenciesList, distTransitionsList,
                   distFixationsList>>

GedNext ==
    \/ GedSkipTrial
    \/ GedEnterTrial
    \/ GedFixation
    \/ GedTrialDone
    \/ GedReturn

----------------------------------------------------------------------------
(* main of simulate_addm_true_distributions: the corrector loop             *)
(* A distribution object maps a cell <<numFix, valueDiff>> to a function    *)
(* from bins to probabilities.  Objects are held in a heap by identity, so  *)
(* that a name bound to an object and a change in place are told apart.     *)

\* N: the number of iterations; numFixDists and numTrials of main
N == 2
mainNumFixDists == 2
mainNumTrials == 1
\* the latencies the runs of the corrector draw from
mainLatencies == {3}

Cells == (1..mainNumFixDists) \X valueDiffs

\* the normalized distributions over the bins that the loop can start from
BinDists ==
    {[b \in bins |-> IF b = 2 THEN Frac(1, 2) ELSE IF b = 4 THEN Frac(1, 2)
                     ELSE Zero],
     [b \in bins |-> IF b = 2 THEN Frac(1, 4) ELSE IF b = 4 THEN Frac(3, 4)
                     ELSE Zero]}

\* the bins of a distribution in increasing order
BinSeq(dist) == [k \in 1..NumBins |-> dist[binStep * k]]

\* sum(dist.values())
SumBins(dist) == Sum(BinSeq(dist))

\* bin = binStep * min((time // binStep) + 1, len(bins))
BinOf(tm) == binStep * Min((tm \div binStep) + 1, NumBins)

\* fixUnfixValueDiffs of a simulated trial
SimulValueDiff(k, item) ==
    IF item = 1 THEN valueLeft[k] - valueRight[k]
    ELSE valueRight[k] - valueLeft[k]

\* the tallies with all counts at 0
NoCount == [c \in Cells \X bins |-> 0]

\* the loop over all entries of trial k but the last: numFix and countTotal
\* after the entries items, times, from numFix and the tally ct
RECURSIVE TallyButLast(_, _, _, _, _)
TallyButLast(k, items, times, numFix, ct) ==
    IF items = <<>> THEN [numFix |-> numFix, countTotal |-> ct]
    ELSE IF Head(items) = 1 \/ Head(items) = 2
    THEN TallyButLast(k, Tail(items), Tail(times),
                      IF numFix < mainNumFixDists THEN numFix + 1 ELSE numFix,
                      [ct EXCEPT ![<<<<numFix, SimulValueDiff(k, Head(items))>>,
                                     BinOf(Head(times))>>] = @ + 1])
    ELSE TallyButLast(k, Tail(items), Tail(times), numFix, ct)

\* items[:-1]
ButLast(list) == SubSeq(list, 1, Len(list) - 1)

\* the cell and bin of the last fixation of trial k, counted at numFix
LastCell(k, numFix) ==
    <<<<numFix, SimulValueDiff(k, fixItem[k][Len(fixItem[k])])>>,
      BinOf(uninterruptedLastFixTime[k])>>

\* CorrectedValue that multiplies by the probability of not being the last
\* fixation where it should divide
CorrectedValueTimes(e, cl, ct) ==
    LET probNotLastFix == IF ct > 0 THEN Minus(One, Frac(cl, ct)) ELSE One
    IN IF probNotLastFix = Zero THEN e ELSE Times(e, probNotLastFix)

\* CorrectedValue that leaves out the bins no fixation was tallied in
CorrectedValueDropsUntallied(e, cl, ct) ==
    IF ct > 0
    THEN (IF Minus(One, Frac(cl, ct)) = Zero THEN e
          ELSE Over(e, Minus(One, Frac(cl, ct))))
    ELSE Zero

\* the value of a bin of trueFixDist before normalization, from the value e
\* of the bin in empiricalFixDist and the tallies cl, ct of the bin
CorrectedValue(e, cl, ct) ==
    LET probNotLastFix == IF ct > 0 THEN Minus(One, Frac(cl, ct)) ELSE One
    IN IF probNotLastFix = Zero THEN e ELSE Over(e, probNotLastFix)

\* the distribution of a cell divided by the sum of its bins, when positive
NormalizedBins(dist) ==
    IF Gt0(SumBins(dist))
    THEN [b \in bins |-> Over(dist[b], SumBins(dist))]
    ELSE dist

\* the entry of the loop: empiricalFixDist is bound to a normalized
\* distribution
CorInit ==
    /\ pcC = "loop"
    /\ iter = 0
    /\ \E dist \in BinDists : heap = (1 :> [c \in Cells |-> dist])
    /\ empiricalFixDist = 1
    /\ trueFixDist = 0
    /\ countLastFix = NoCount
    /\ countTotal = NoCount

\* the outputs and the locals of run_simulations hold nothing: no call has
\* returned yet, or the loop has read the trials of the last call for the
\* last time
NoSimulation ==
    /\ discarded' = FALSE
    /\ raised' = NoError
    /\ steps' = <<>>
    /\ draws' = <<>>
    /\ rt' = <<>> /\ choice' = <<>> /\ valueLeft' = <<>> /\ valueRight' = <<>>
    /\ fixItem' = <<>> /\ fixTime' = <<>> /\ fixRDV' = <<>>
    /\ uninterruptedLastFixTime' = <<>>
    /\ cond' = 1
    /\ trial' = 0
    /\ trialCount' = 0
    /\ RDV' = 0 /\ trialTime' = 0 /\ latency' = 0 /\ t' = 0
    /\ currFixItem' = 0 /\ currFixTime' = 0 /\ fixNumber' = 0
    /\ trialFinished' = FALSE /\ trialAborted' = FALSE
    /\ transitionTime' = 0

\* for i in xrange(N): run_simulations is called on empiricalFixDist
CorRunSimulations ==
    /\ pcC = "loop"
    /\ iter < N
    /\ pcC' = "simulating"
    /\ numTrials' = mainNumTrials
    /\ visualDelay' = 0
    /\ distLatencies' = mainLatencies
    /\ numFixDists' = mainNumFixDists
    /\ emptyCells' = {}
    /\ NoSimulation
    /\ pc' = "trialLoop"
    /\ UNCHANGED <<apVars, gedVars, iter, heap, empiricalFixDist, trueFixDist,
                   countLastFix, countTotal>>

\* the tallies after the item fixations of trial k are counted, from the
\* tallies cl (countLastFix) and ct (countTotal)
TallyTrial(k, cl, ct) ==
    LET butLast == TallyButLast(k, ButLast(fixItem[k]), ButLast(fixTime[k]),
                                1, ct)
        last == LastCell(k, butLast.numFix)
    IN [countLastFix |-> [cl EXCEPT ![last] = @ + 1],
        countTotal |-> [butLast.countTotal EXCEPT ![last] = @ + 1]]

\* for trial in simulRT.keys(): the tallies after the trials keys are counted
RECURSIVE TallyTrials(_)
TallyTrials(keys) ==
    IF keys = {} THEN [countLastFix |-> NoCount, countTotal |-> NoCount]
    ELSE LET k == CHOOSE x \in keys : TRUE
             rest == TallyTrials(keys \ {k})
         IN TallyTrial(k, rest.countLastFix, rest.countTotal)

\* run_simulations has returned: the tallies are created, all at 0, and the
\* item fixations of every trial are counted
CorTally ==
    /\ pcC = "simulating"
    /\ pc = "done"
    /\ countLastFix' = TallyTrials(DOMAIN rt).countLastFix
    /\ countTotal' = TallyTrials(DOMAIN rt).countTotal
    /\ pcC' = "correct"
    /\ UNCHANGED <<simVars, apVars, gedVars, iter, heap, empiricalFixDist,
                   trueFixDist>>

\* CorCorrect that writes the corrected values into the object it read them
\* from: trueFixDist is one more name of empiricalFixDist
CorCorrectInPlace ==
    /\ pcC = "correct"
    /\ trueFixDist' = empiricalFixDist
    /\ heap' = [heap EXCEPT ![empiricalFixDist] =
                   [c \in Cells |-> [b \in bins |->
                       CorrectedValue(heap[empiricalFixDist][c][b],
                                      countLastFix[<<c, b>>],
                                      countTotal[<<c, b>>])]]]
    /\ pcC' = "normalize"
    /\ NoSimulation
    /\ UNCHANGED <<simArgs, pc, apVars, gedVars, iter, empiricalFixDist,
                   countLastFix, countTotal>>

\* trueFixDist = dict(): a new object receives the corrected values.  The
\* trials of the simulation are dead from here on (the next iteration
\* simulates its own) and are not carried over.
CorCorrect ==
    /\ pcC = "correct"
    /\ LET new == Cardinality(DOMAIN heap) + 1
       IN /\ trueFixDist' = new
          /\ heap' = Put(heap, new,
                         [c \in Cells |-> [b \in bins |->
                             CorrectedValue(heap[empiricalFixDist][c][b],
                                            countLastFix[<<c, b>>],
                                            countTotal[<<c, b>>])]])
    /\ pcC' = "normalize"
    /\ NoSimulation
    /\ UNCHANGED <<simArgs, pc, apVars, gedVars, iter, empiricalFixDist,
                   countLastFix, countTotal>>

\* CorNormalize without the division: trueFixDist is left as it is
CorNormalizeSkipped ==
    /\ pcC = "normalize"
    /\ pcC' = "rebind"
    /\ UNCHANGED <<simVars, apVars, gedVars, iter, heap, empiricalFixDist,
                   trueFixDist, countLastFix, countTotal>>

\* trueFixDist is normalized in place
CorNormalize ==
    /\ pcC = "normalize"
    /\ heap' = [heap EXCEPT ![trueFixDist] =
                   [c \in Cells |-> NormalizedBins(heap[trueFixDist][c])]]
    /\ pcC' = "rebind"
    /\ UNCHANGED <<simVars, apVars, gedVars, iter, empiricalFixDist,
                   trueFixDist, countLastFix, countTotal>>

\* empiricalFixDist = trueFixDist, and the next iteration.  The tallies of
\* the iteration are dead here (the next iteration creates its own) and are
\* not carried over.
CorRebind ==
    /\ pcC = "rebind"
    /\ empiricalFixDist' = trueFixDist
    /\ iter' = iter + 1
    /\ countLastFix' = NoCount
    /\ countTotal' = NoCount
    /\ pcC' = "loop"
    /\ UNCHANGED <<simVars, apVars, gedVars, heap, trueFixDist>>

\* the loop is exhausted
CorLoopDone ==
    /\ pcC = "loop"
    /\ ~(iter < N)
    /\ pcC' = "done"
    /\ UNCHANGED <<simVars, apVars, gedVars, iter, heap, empiricalFixDist,
                   trueFixDist, countLastFix, countTotal>>

\* the steps of run_simulations when visualDelay = 0: the loop over the
\* visual delay has no iteration
SimNextNoDelay ==
    \/ StartTrial
    \/ NextCondition
    \/ Return
    \/ SampleLatency
    \/ LatencyStep
    \/ SampleFirstFixation
    \/ VisualDelayDone
    \/ FixationStep
    \/ FixationDone
    \/ TransitionStep
    \/ TransitionDone
    \/ EndTrial

CorNext ==
    \/ CorRunSimulations
    \/ SimNextNoDelay
    \/ CorTally
    \/ CorCorrect
    \/ CorNormalize
    \/ CorRebind
    \/ CorLoopDone

----------------------------------------------------------------------------
(* Specifications *)

\* main of simulate_addm_true_distributions is not running
CorOff ==
    /\ pcC = "off"
    /\ iter = 0
    /\ heap = <<>>
    /\ empiricalFixDist = 0
    /\ trueFixDist = 0
    /\ countLastFix = <<>>
    /\ countTotal = <<>>

\* no call of get_empirical_distributions
GedOff ==
    /\ gedArg = [corpus |-> <<>>, numFixDists |-> 0, useOddTrials |-> TRUE,
                 useEvenTrials |-> TRUE]
    /\ pcG = "off"
    /\ trialG = 1
    /\ iG = 0
    /\ excludeCount = 0
    /\ latencyG = 0
    /\ firstItemFixReached = FALSE
    /\ fixNumberG = 1
    /\ countLeftFirst = 0
    /\ countTotalTrials = 0
    /\ distLatenciesList = <<>>
    /\ distTransitionsList = <<>>
    /\ distFixationsList = <<>>
    /\ outcomeG = "running"
    /\ probLeftFixFirst = Zero

\* no call of analysis_per_trial
ApOff ==
    /\ arg = [choice |-> 0, valueLeft |-> 0, valueRight |-> 0,
              fixItem |-> <<>>, fixTime |-> <<>>, d |-> 4, theta |-> 0,
              std |-> 0, mu |-> 0, stateStep |-> 4, barrier |-> 8,
              visualDelay |-> 0, motorDelay |-> 0, plotResults |-> FALSE]
    /\ pcA = "off"
    /\ std = 0
    /\ correctedFixItem = <<>> /\ correctedFixTime = <<>>
    /\ maxTime = 0
    /\ states = <<>> /\ prStates = <<>>
    /\ probUpCrossing = <<>> /\ probDownCrossing = <<>>
    /\ time = 0
    /\ likelihood = Zero
    /\ outcome = "running"
    /\ retval = Zero
    /\ call = 1
    /\ first = [outcome |-> "running", retval |-> Zero]

\* no call of run_simulations
SimOff ==
    /\ numTrials = 0 /\ visualDelay = 0 /\ distLatencies = {}
    /\ numFixDists = 0 /\ emptyCells = {}
    /\ discarded = FALSE
    /\ raised = NoError
    /\ steps = <<>>
    /\ draws = <<>>
    /\ rt = <<>> /\ choice = <<>> /\ valueLeft = <<>> /\ valueRight = <<>>
    /\ fixItem = <<>> /\ fixTime = <<>> /\ fixRDV = <<>>
    /\ uninterruptedLastFixTime = <<>>
    /\ pc = "off"
    /\ cond = 1 /\ trial = 0 /\ trialCount = 0
    /\ RDV = 0 /\ trialTime = 0 /\ latency = 0 /\ t = 0
    /\ currFixItem = 0 /\ currFixTime = 0 /\ fixNumber = 0
    /\ trialFinished = FALSE /\ trialAborted = FALSE
    /\ transitionTime = 0

\* a run of run_simulations
Init == SimInit /\ ApOff /\ GedOff /\ CorOff
Next == SimNext
Spec == Init /\ [][Next]_vars

\* a run of run_simulations that never stops of its own accord and draws its
\* samples fairly: a latency without a barrier hit and a barrier hit during an
\* item fixation are drawn again and again while they remain possible
LatencyPass == (SampleLatency \/ LatencyStep) /\ pc' = "firstFix"
Cross == (VisualDelayStep \/ FixationStep) /\ pc' = "endTrial"
FairInit == Init /\ numTrials <= 1 /\ numFixDists >= 2 /\ emptyCells = {}
FairNext == Next \/ FixationPastBound
FairSpec ==
    /\ FairInit
    /\ [][FairNext]_vars
    /\ WF_vars(FairNext)
    /\ SF_vars(LatencyPass)
    /\ SF_vars(Cross)

\* a call of analysis_per_trial
ApCall == ApInit /\ SimOff /\ GedOff /\ CorOff
ApSpec == ApCall /\ [][ApNext]_vars

\* a call of analysis_per_trial with a positive std and without plots, followed
\* by the call on the mirrored arguments
SymCall == ApCall /\ arg.std > 0 /\ ~arg.plotResults
SymSpec == SymCall /\ [][SymNext]_vars

\* a run of run_simulations of one trial per condition, one of whose trials
\* is then analysed by analysis_per_trial
PipeInit == Init /\ numTrials = 1 /\ emptyCells = {} /\ numFixDists >= 2
PipeSpec == PipeInit /\ [][PipeNext]_vars

\* a call of get_empirical_distributions
GedCall == GedInit /\ SimOff /\ ApOff /\ CorOff
GedSpec == GedCall /\ [][GedNext]_vars

\* the corrector loop of main, no simulation running yet
CorCall == CorInit /\ SimOff /\ ApOff /\ GedOff
CorSpec == CorCall /\ [][CorNext]_vars

-----------------------------------------------------------------------------
(* Properties of run_simulations                                           *)

\* the keys of a returned run: numTrials trials for each trial condition
Keys == 0 .. ((numTrials * Len(trialConditions)) - 1)

\* C1: when run_simulations returns, each of the eight output dicts has
\* exactly the keys 0 .. numTrials * len(trialConditions) - 1, whatever number
\* of attempts was discarded, and the trials k * numTrials ..
\* (k + 1) * numTrials - 1 carry the values of the k-th trial condition.
C1_ExactlyNumTrialsPerCondition ==
    pc = "done" =>
        /\ DOMAIN rt = Keys
        /\ DOMAIN choice = Keys
        /\ DOMAIN valueLeft = Keys
        /\ DOMAIN valueRight = Keys
        /\ DOMAIN fixItem = Keys
        /\ DOMAIN fixTime = Keys
        /\ DOMAIN fixRDV = Keys
        /\ DOMAIN uninterruptedLastFixTime = Keys
        /\ \A k \in 1..Len(trialConditions) : \A i \in 0..(numTrials - 1) :
              /\ valueLeft[((k - 1) * numTrials) + i] = trialConditions[k][1]
              /\ valueRight[((k - 1) * numTrials) + i] = trialConditions[k][2]

\* a run of two trials per condition has returned after discarding an attempt
C1_Witness ==
    /\ pc = "done"
    /\ numTrials = 2
    /\ discarded
    /\ DOMAIN choice = 0..3
    /\ valueLeft[1] = 1 /\ valueLeft[2] = 0

\* C2: when run_simulations returns, every trial it holds ends on an item
\* fixation (the last entry of fixItem is 1 or 2), has a choice of -1 or +1
\* and has a positive rt.
C2_TrialsEndOnItemFixation ==
    pc = "done" =>
        \A k \in DOMAIN fixItem :
            /\ Len(fixItem[k]) > 0
            /\ fixItem[k][Len(fixItem[k])] \in {1, 2}
            /\ k \in DOMAIN choice
            /\ choice[k] \in {-1, 1}
            /\ k \in DOMAIN rt
            /\ rt[k] > 0

\* a returned run holds a trial that went through a transition before its
\* last item fixation, after an attempt was discarded
C2_Witness ==
    /\ pc = "done"
    /\ discarded
    /\ \E k \in DOMAIN fixItem :
          /\ Len(fixItem[k]) >= 4
          /\ fixItem[k][Len(fixItem[k]) - 1] = 0
          /\ fixItem[k][Len(fixItem[k])] \in {1, 2}
          /\ k \in DOMAIN choice

\* C3: with noise samples drawn fairly, run_simulations eventually returns:
\* the latency retry loop, the fixation loop and the trial loop terminate.
C3_EventuallyReturns == <>(pc = "done")

\* a run of one trial per condition has returned after discarding an attempt
C3_Witness ==
    /\ pc = "done"
    /\ numTrials = 1
    /\ discarded
    /\ DOMAIN rt = 0..1

\* C12: when the simulator needs a fixation duration from a cell of
\* distFixations that holds no sample, the run ends at once with an error that
\* identifies the cell <<fixNumber, valueDiff>>.
C12_ExhaustionNamesCell ==
    /\ raised.type = "ValueError" => raised.cell \in emptyCells
    /\ (pc = "raised") = (raised # NoError)

\* a step of the latency loop that hits a barrier
LatencyAbort == pc = "latencyLoop" /\ pc' = "latency"

\* C13: a barrier hit during the latency sets no choice and no rt, appends
\* nothing to the record of the trial, resets the RDV to 0 and leads to a fresh
\* latency; when the first item fixation starts, the record of the trial holds
\* exactly one entry, the latency (item 0), and the RDV is strictly inside the
\* barriers.
C13_LatencyHitIsNoDecision ==
    [][/\ LatencyAbort =>
            /\ RDV' = 0
            /\ UNCHANGED <<simOut, trial, trialCount, trialTime>>
       /\ pc' = "firstFix" =>
            /\ fixItem'[trialCount'] = <<0>>
            /\ Len(fixTime'[trialCount']) = 1
            /\ Len(fixRDV'[trialCount']) = 1
            /\ ~Hit(RDV')
            /\ trialCount' \notin DOMAIN choice'
            /\ trialCount' \notin DOMAIN rt']_vars

\* a latency of the first attempt has just been discarded for a barrier hit:
\* the sampled latency is still held, nothing is recorded, the RDV is 0
C13_Witness ==
    /\ pc = "latency"
    /\ latency = 3
    /\ discarded
    /\ RDV = 0
    /\ trialTime = 0
    /\ trialCount = 0
    /\ fixItem[0] = <<>>
    /\ fixTime[0] = <<>>
    /\ choice = <<>>
    /\ rt = <<>>

\* a step of the transition loop that hits a barrier
TransitionAbort == pc = "transition" /\ pc' = "endTrial"

\* C14: a barrier hit during a transition aborts the attempt: the step and the
\* end of the attempt record no choice, rt, valueLeft, valueRight or
\* uninterruptedLastFixTime and advance neither trial nor trialCount, and the
\* next attempt starts at the same index with empty fixItem, fixTime and fixRDV
\* lists, RDV = 0, elapsed time 0 and its first fixation drawn from the
\* distributions of fixation number 1.
C14_TransitionHitRestartsTrial ==
    [][/\ TransitionAbort =>
            /\ trialAborted'
            /\ trialCount \notin DOMAIN choice'
            /\ trialCount \notin DOMAIN rt'
            /\ trialCount \notin DOMAIN valueLeft'
            /\ trialCount \notin DOMAIN valueRight'
            /\ trialCount \notin DOMAIN uninterruptedLastFixTime'
            /\ UNCHANGED <<trial, trialCount>>
       /\ (pc = "endTrial" /\ trialAborted) =>
            /\ pc' = "trialLoop"
            /\ UNCHANGED <<trial, trialCount, rt, choice, valueLeft, valueRight,
                           uninterruptedLastFixTime>>
       /\ (pc = "trialLoop" /\ pc' = "latency") =>
            /\ UNCHANGED <<trial, trialCount>>
            /\ fixItem'[trialCount] = <<>>
            /\ fixTime'[trialCount] = <<>>
            /\ fixRDV'[trialCount] = <<>>
            /\ RDV' = 0
            /\ trialTime' = 0
       /\ (pc = "firstFix" /\ pc' = "visualDelay") =>
            /\ fixNumber' = 2
            /\ currFixTime' + visualDelay
                   \in distFixations(1, fixUnfixValueDiffs(currFixItem'))]_vars

\* the first index is attempted again after a transition of its earlier
\* attempt hit a barrier: nothing of that attempt is left
C14_Witness ==
    /\ pc = "latency"
    /\ discarded
    /\ latency = 0
    /\ cond = 1 /\ trial = 0 /\ trialCount = 0
    /\ fixItem = (0 :> <<>>)
    /\ fixTime = (0 :> <<>>)
    /\ fixRDV = (0 :> <<>>)
    /\ RDV = 0
    /\ trialTime = 0
    /\ choice = <<>> /\ rt = <<>> /\ valueLeft = <<>> /\ valueRight = <<>>
    /\ uninterruptedLastFixTime = <<>>

\* the last entry of a list of the record of a trial
LastOf(list) == list[Len(list)]

\* C15: the choice recorded for a trial is -1 exactly when the RDV at the
\* crossing bin is >= barrier and +1 exactly when it is <= -barrier, and the
\* last entry of fixRDV of the trial is that RDV, whether the barrier was hit
\* during the visual delay or during the drift of the fixation.
C15_ChoiceMatchesBarrier ==
    /\ \A k \in DOMAIN choice :
          /\ k \in DOMAIN fixRDV
          /\ Len(fixRDV[k]) > 0
          /\ Hit(LastOf(fixRDV[k]))
          /\ (choice[k] = -1) = (LastOf(fixRDV[k]) >= barrier)
          /\ (choice[k] = 1) = (LastOf(fixRDV[k]) <= -barrier)
    /\ (pc = "endTrial" /\ ~trialAborted) =>
          /\ trialCount \in DOMAIN choice
          /\ LastOf(fixRDV[trialCount]) = RDV

\* a returned run holds a trial that ended at the lower barrier during the
\* visual delay and a trial that ended at the upper barrier during the drift
C15_Witness ==
    /\ pc = "done"
    /\ visualDelay = 2
    /\ DOMAIN choice = {0, 1}
    /\ choice[0] = 1
    /\ LastOf(fixTime[0]) = timeStep + motorDelay
    /\ LastOf(fixRDV[0]) <= -barrier
    /\ choice[1] = -1
    /\ LastOf(fixTime[1]) >= timeStep + visualDelay + motorDelay
    /\ LastOf(fixRDV[1]) >= barrier

\* C16: the rt of a recorded trial is the sum of its fixTime entries; the last
\* entry is a whole number of time bins plus the motor delay (plus the visual
\* delay when the barrier was hit during the drift), and every earlier entry
\* is a whole number of time bins (plus the visual delay for an item
\* fixation) without the motor delay.
C16_RtIsSumOfFixTime ==
    \A k \in DOMAIN rt :
        LET items == fixItem[k]
            times == fixTime[k]
            n == Len(times)
        IN /\ n > 0
           /\ Len(items) = n
           /\ rt[k] = SumSeq(times)
           /\ times[n] - motorDelay >= timeStep
           /\ \/ (times[n] - motorDelay) % timeStep = 0
              \/ ((times[n] - motorDelay) - visualDelay) % timeStep = 0
           /\ \A i \in 1..(n - 1) :
                 IF items[i] = 0 THEN times[i] % timeStep = 0
                 ELSE (times[i] - visualDelay) % timeStep = 0

\* a returned run with a visual delay holds a trial of a latency, a fixation,
\* a transition and the fixation that hit the barrier
C16_Witness ==
    /\ pc = "done"
    /\ visualDelay = 2
    /\ \E k \in DOMAIN rt :
          /\ fixItem[k] = <<0, 1, 0, 2>>
          /\ fixTime[k][1] = 2
          /\ fixTime[k][4] = (timeStep + visualDelay) + motorDelay
          /\ rt[k] = SumSeq(fixTime[k])

\* a step that draws the duration of the next item fixation of the attempt
DrawsFixation ==
    \/ pc = "firstFix" /\ pc' # "firstFix"
    \/ pc = "transition" /\ pc' \in {"visualDelay", "raised"}

\* C17: the k-th item fixation of an attempt draws its duration from the
\* distributions of key min(k, numFixDists), a key of distFixations, for
\* every numFixDists >= 1.
C17_FixationKeyIsCapped ==
    [][DrawsFixation =>
          LET k == NumItemFix(fixItem[trialCount]) + 1
              key == Min(k, numFixDists)
          IN /\ raised'.type # "KeyError"
             /\ raised' = NoError =>
                   currFixTime' + visualDelay
                       \in distFixations(key,
                                         fixUnfixValueDiffs(currFixItem'))]_vars

\* C26: every returned trial has fixItem, fixTime and fixRDV of equal length
\* and the shape 0, i1, 0, i2, ..., 0, in: one latency entry first, item
\* fixations at the even positions and transitions at the odd ones, item
\* fixations that follow each other alternating between 1 and 2, every fixRDV
\* value but the last strictly inside the barriers and the last at or beyond a
\* barrier.
C26_TrialShape ==
    \A k \in DOMAIN rt :
        LET items == fixItem[k]
            rdvs == fixRDV[k]
            n == Len(items)
        IN /\ Len(fixTime[k]) = n
           /\ Len(rdvs) = n
           /\ n >= 2
           /\ n % 2 = 0
           /\ \A i \in 1..n :
                 IF i % 2 = 1 THEN items[i] = 0 ELSE items[i] \in {1, 2}
           /\ \A i \in 1..(n - 2) : i % 2 = 0 => items[i + 2] = 3 - items[i]
           /\ \A i \in 1..(n - 1) : rdvs[i] > -barrier /\ rdvs[i] < barrier
           /\ rdvs[n] >= barrier \/ rdvs[n] <= -barrier

\* a returned run holds a trial of a latency, a fixation of the right item, a
\* transition and a fixation of the left item that crossed the lower barrier,
\* with the RDV away from 0 at the end of the first fixation
C26_Witness ==
    /\ pc = "done"
    /\ \E k \in DOMAIN rt :
          /\ fixItem[k] = <<0, 2, 0, 1>>
          /\ fixRDV[k][2] # 0
          /\ fixRDV[k][4] <= -barrier

\* the trials of the run that were handed to the call of analysis_per_trial
Analysed ==
    {k \in DOMAIN rt : /\ arg.fixItem = fixItem[k]
                       /\ arg.fixTime = fixTime[k]
                       /\ arg.valueLeft = valueLeft[k]
                       /\ arg.valueRight = valueRight[k]
                       /\ arg.choice = choice[k]}

\* C28: for a trial returned by run_simulations and analysed with the same
\* timeStep, visualDelay and motorDelay, the number of time bins of
\* analysis_per_trial is the number of RDV steps the simulator took in the
\* trial, and each bin carries the drift of the item (or the zero drift) of
\* the step of the same rank.
C28_EnginesAgreeOnTime ==
    (pc = "done" /\ pcA \in {"loop", "done"}) =>
        \A k \in Analysed :
            /\ maxTime = Len(steps[k])
            /\ \A b \in 1..maxTime :
                  b <= Len(steps[k]) =>
                      ItemAt(correctedFixItem, correctedFixTime, b - 1)
                          = steps[k][b]

-----------------------------------------------------------------------------
(* Properties of get_empirical_distributions                               *)

\* the positions of the trials of the corpus that are tabulated
Included ==
    {k \in DOMAIN gedArg.corpus : ~GedSkipped(k, gedArg.corpus[k])}

\* the item of the first item fixation of a trial that has one
FirstItem(items) ==
    items[CHOOSE i \in DOMAIN items :
              /\ items[i] \in {1, 2}
              /\ \A j \in 1..(i - 1) : items[j] \notin {1, 2}]

\* the tabulated trials whose first item fixation is the left item
LeftFirst == {k \in Included : FirstItem(gedArg.corpus[k].fixItem) = 1}

\* C25: for every numFixDists >= 1, get_empirical_distributions counts each
\* tabulated trial exactly once and returns probLeftFixFirst = (number of
\* tabulated trials whose first item fixation is the left item) / (number of
\* tabulated trials).
C25_ProbLeftFixFirst ==
    (pcG = "done" /\ Included # {}) =>
        /\ outcomeG = "returned"
        /\ countTotalTrials = Cardinality(Included)
        /\ probLeftFixFirst
               = Frac(Cardinality(LeftFirst), Cardinality(Included))

-----------------------------------------------------------------------------
(* Properties of the corrector loop                                        *)

\* probLastFix of a bin: countLastFix / countTotal, 0 when nothing was
\* tallied
ProbLastFix(key) ==
    IF countTotal[key] = 0 THEN Zero
    ELSE Frac(countLastFix[key], countTotal[key])

\* the input and the output of the iteration at a bin
Empirical(key) == heap[empiricalFixDist][key[1]][key[2]]
True(key) == heap[trueFixDist][key[1]][key[2]]

IsNormalized(dist) ==
    \A c \in Cells :
        /\ \A b \in bins : Leq(Zero, dist[c][b])
        /\ SumBins(dist[c]) = One

\* C22: the distribution bound to empiricalFixDist, which the simulations
\* draw from, is normalized at the entry of the loop and after every
\* iteration, and so is trueFixDist once an iteration has normalized it.
C22_HandedOnNormalized ==
    /\ pcC # "off" => IsNormalized(heap[empiricalFixDist])
    /\ pcC = "rebind" => IsNormalized(heap[trueFixDist])

\* the second simulation draws from a distribution that the first iteration
\* has changed
C22_Witness ==
    /\ pcC = "simulating"
    /\ iter = 1
    /\ pc = "fixation"
    /\ empiricalFixDist = 2
    /\ heap[2] # heap[1]

C24_DistributionsReadOnly ==
    [][/\ (pcC = "simulating" /\ pcC' = "simulating") =>
            UNCHANGED <<simArgs, heap, empiricalFixDist>>
       /\ pcC # "off" =>
            /\ heap'[empiricalFixDist] = heap[empiricalFixDist]
            /\ \A o \in DOMAIN heap :
                  o # trueFixDist' => heap'[o] = heap[o]
            /\ trueFixDist' # trueFixDist => trueFixDist' \notin DOMAIN heap]_vars

\* the second iteration has built its own object: the object the loop
\* started from and the object of the first iteration are still there
C24_Witness ==
    /\ pcC = "rebind"
    /\ iter = 1
    /\ empiricalFixDist = 2
    /\ trueFixDist = 3
    /\ \E dist \in BinDists : heap[1] = [c \in Cells |-> dist]
    /\ heap[2] # heap[1]
    /\ heap[3] # heap[2]

\* the draws of the item fixations of the returned trials, as
\* <<trial, rank>> pairs, that were made in the bin key[2] of the cell key[1]
DrawnFrom(key) ==
    {f \in {g \in (DOMAIN rt) \X (1..MaxFix) : g[2] <= Len(draws[g[1]])} :
        draws[f[1]][f[2]] = <<key[1][1], key[1][2], key[2]>>}

\* C27: once the trials of a simulation are tallied, countTotal of a bin of
\* a cell is the number of item fixations drawn from that bin of that cell,
\* and countLastFix the number of those that are the last fixation of their
\* trial.
C27_TalliedWhereDrawn ==
    pcC = "correct" =>
        \A key \in Cells \X bins :
            /\ countTotal[key] = Cardinality(DrawnFrom(key))
            /\ countLastFix[key]
                   = Cardinality({f \in DrawnFrom(key) :
                                     f[2] = Len(draws[f[1]])})

-----------------------------------------------------------------------------
(* Properties of analysis_per_trial                                        *)

\* the forward propagation has run for at least one time bin
Propagated == pcA \in {"loop", "done"} /\ time >= 1

\* the grid has exactly one state equal to 0
OneZeroState == Cardinality({k \in DOMAIN states : states[k] = 0}) = 1

\* the sum of the first k entries of a trace
Cumulated(trace, k) == Sum(SubSeq(trace, 1, k))

\* the last entry of a trace
Last(trace) == trace[Len(trace)]

\* C4: analysis_per_trial returns 0 whenever std <= 0 and mu is not
\* positive.
C4_NonPositiveStdReturnsZero ==
    (pcA = "done" /\ arg.std <= 0 /\ arg.mu <= 0) =>
        (outcome = "returned" /\ retval = Zero)

\* C5: analysis_per_trial returns 0 when the delay-corrected fixations hold
\* no time bin at all, whatever d, theta, sigma and choice are.
C5_NoTimeBinReturnsZero ==
    (pcA = "done" /\ MaxTime(CorrectedFixTime(arg)) = 0) =>
        (outcome = "returned" /\ retval = Zero)

\* a call with a fixation, a positive std and plots asked for has returned 0
\* because the motor delay left no time bin
C5_Witness ==
    /\ pcA = "done"
    /\ arg.fixItem # <<>>
    /\ arg.std > 0
    /\ arg.motorDelay > 0
    /\ arg.plotResults
    /\ arg.choice = -1
    /\ MaxTime(CorrectedFixTime(arg)) = 0
    /\ outcome = "returned"
    /\ retval = Zero

\* C6: after every time bin the beliefs and the mass absorbed so far at the
\* two barriers sum to 1, for every positive std and every grid.
C6_MassIsConserved ==
    (Propagated /\ std > 0) =>
        Plus(Plus(Sum(prStates), Cumulated(probUpCrossing, time)),
             Cumulated(probDownCrossing, time)) = One

\* C7 as stated: the traces probUpCrossing and probDownCrossing are
\* non-decreasing in t.
C7_TracesNonDecreasing ==
    (Propagated /\ std > 0 /\ OneZeroState) =>
        \A k \in 1..(time - 1) :
            /\ Leq(probUpCrossing[k], probUpCrossing[k + 1])
            /\ Leq(probDownCrossing[k], probDownCrossing[k + 1])

\* C7: each entry of probUpCrossing and probDownCrossing that is a number is
\* the mass absorbed in its own time bin and is not negative, so that the
\* mass absorbed up to a time bin does not decrease with the time bin.
C7_IncrementsNonNegative ==
    Propagated =>
        \A k \in 1..time :
            /\ IsNaN(probUpCrossing[k]) \/ Leq(Zero, probUpCrossing[k])
            /\ IsNaN(probDownCrossing[k]) \/ Leq(Zero, probDownCrossing[k])
            /\ IsNaN(Cumulated(probUpCrossing, k))
                   \/ Leq(Cumulated(probUpCrossing, k - 1),
                          Cumulated(probUpCrossing, k))
            /\ IsNaN(Cumulated(probDownCrossing, k))
                   \/ Leq(Cumulated(probDownCrossing, k - 1),
                          Cumulated(probDownCrossing, k))

\* a trace of a grid with one zero state and a positive std holds a positive
\* entry that is smaller than the entry before it
C7_Witness ==
    /\ pcA = "done"
    /\ std > 0
    /\ OneZeroState
    /\ time >= 2
    /\ \E k \in 1..(time - 1) :
          /\ Gt0(probUpCrossing[k + 1])
          /\ Less(probUpCrossing[k + 1], probUpCrossing[k])

\* C8 as stated: the likelihood of choice -1 is the mass absorbed at the
\* lower barrier in the last time bin, that of choice +1 the mass absorbed at
\* the upper barrier.
C8_LeftIsLowerBarrier ==
    (pcA = "done" /\ outcome = "returned" /\ maxTime > 0
        /\ std > 0 /\ OneZeroState) =>
        /\ arg.choice = -1 => retval = Last(probDownCrossing)
        /\ arg.choice = 1 => retval = Last(probUpCrossing)

\* C8: the likelihood of choice -1 is the mass absorbed at the upper barrier
\* in the last time bin when that mass is positive and 0 otherwise, that of
\* choice +1 the same of the lower barrier.
C8_LeftIsUpperBarrier ==
    (pcA = "done" /\ outcome = "returned" /\ maxTime > 0) =>
        /\ arg.choice = -1 =>
               retval = (IF Gt0(Last(probUpCrossing))
                         THEN Last(probUpCrossing) ELSE Zero)
        /\ arg.choice = 1 =>
               retval = (IF Gt0(Last(probDownCrossing))
                         THEN Last(probDownCrossing) ELSE Zero)

\* a call with choice -1 has returned the mass of the upper barrier, which
\* differs from that of the lower barrier
C8_Witness ==
    /\ pcA = "done"
    /\ outcome = "returned"
    /\ maxTime > 0
    /\ std > 0
    /\ OneZeroState
    /\ arg.choice = -1
    /\ Less(Last(probDownCrossing), Last(probUpCrossing))
    /\ retval = Last(probUpCrossing)

\* C9: analysis_per_trial returns a value within [0, 1] for every positive
\* std and every grid.
C9_LikelihoodInUnitInterval ==
    (pcA = "done" /\ ~arg.plotResults /\ arg.std > 0) =>
        /\ outcome = "returned"
        /\ Leq(Zero, retval)
        /\ Leq(retval, One)

\* C10: a call with plotResults = True completes and returns the likelihood
\* that the same call returns with plotResults = False.
C10_PlotsAreObservational ==
    (pcA = "done" /\ arg.plotResults) =>
        (outcome = "returned" /\ retval = likelihood)

\* the second call of the pair has ended
MirrorDone == call = 2 /\ pcA = "done"

\* C11: exchanging left and right in the item codes, the item values and the
\* choice leaves the likelihood returned by analysis_per_trial unchanged.
C11_MirrorSymmetry ==
    MirrorDone => (outcome = first.outcome /\ retval = first.retval)

\* the call has gone through the delay corrections
Corrected == pcA # "start" /\ ~Underdetermined(arg.std, arg.mu)

\* C18: without motor delay, the corrected sequence holds, for every item
\* fixation of duration D when visualDelay > 0, a blank of min(visualDelay, D)
\* followed by the item with max(D - visualDelay, 0), and every other
\* fixation as it is, in the order of the trial; the total duration is that
\* of the trial; without visual delay the sequence is that of the trial.
C18_VisualDelaySplit ==
    (Corrected /\ arg.motorDelay = 0) =>
        LET items == arg.fixItem
            times == arg.fixTime
            vd == arg.visualDelay
            Pos(i) == IF vd > 0 THEN i + NumItemFix(SubSeq(items, 1, i - 1))
                      ELSE i
        IN /\ Len(correctedFixItem) = Pos(Len(items) + 1) - 1
           /\ Len(correctedFixTime) = Len(correctedFixItem)
           /\ SumSeq(correctedFixTime) = SumSeq(times)
           /\ vd = 0 => (correctedFixItem = items /\ correctedFixTime = times)
           /\ \A i \in DOMAIN items :
                 IF vd > 0 /\ items[i] \in {1, 2}
                 THEN /\ correctedFixItem[Pos(i)] = 0
                      /\ correctedFixTime[Pos(i)] = Min(vd, times[i])
                      /\ correctedFixItem[Pos(i) + 1] = items[i]
                      /\ correctedFixTime[Pos(i) + 1] = Max(times[i] - vd, 0)
                 ELSE /\ correctedFixItem[Pos(i)] = items[i]
                      /\ correctedFixTime[Pos(i)] = times[i]

\* a trial with an item fixation shorter than the visual delay, a transition
\* and an item fixation as long as the visual delay has been corrected
C18_Witness ==
    /\ pcA = "done"
    /\ arg.visualDelay = 2
    /\ arg.motorDelay = 0
    /\ arg.fixItem = <<1, 0, 2>>
    /\ arg.fixTime = <<1, 3, 2>>
    /\ correctedFixItem = <<0, 1, 0, 0, 2>>
    /\ correctedFixTime = <<1, 0, 3, 2, 0>>

\* C19: the corrected sequence is the visual-delay-corrected sequence, except
\* that with motorDelay > 0 the duration of its last item fixation is reduced
\* to max(duration - motorDelay, 0); every other entry, blanks after that
\* fixation included, is unchanged, and so is a sequence without item
\* fixation; the arguments of the call are never modified.
C19_MotorDelayOnLastItemFixation ==
    [][/\ UNCHANGED arg \/ ApMirrorCall
       /\ Corrected' =>
            LET v == VisualCorrected(arg'.fixItem, arg'.fixTime,
                                     arg'.visualDelay)
                md == arg'.motorDelay
                IsLastItem(i) ==
                    /\ v[i][1] \in {1, 2}
                    /\ \A j \in (i + 1)..Len(v) : v[j][1] \notin {1, 2}
            IN /\ Len(correctedFixItem') = Len(v)
               /\ Len(correctedFixTime') = Len(v)
               /\ \A i \in DOMAIN v :
                     /\ correctedFixItem'[i] = v[i][1]
                     /\ correctedFixTime'[i] =
                            IF md > 0 /\ IsLastItem(i)
                            THEN Max(v[i][2] - md, 0)
                            ELSE v[i][2]]_vars

\* a trial that ends on a blank has been corrected for the motor delay: the
\* item fixation before the blank is shortened, the blank is not
C19_Witness ==
    /\ pcA = "done"
    /\ arg.visualDelay = 0
    /\ arg.motorDelay = 1
    /\ arg.fixItem = <<2, 0>>
    /\ arg.fixTime = <<3, 2>>
    /\ correctedFixItem = <<2, 0>>
    /\ correctedFixTime = <<2, 2>>

\* C20: for every stateStep and barrier, the grid holds exactly one state equal
\* to 0 after snapping and the initial beliefs are 1 for that state and 0 for
\* every other state, of total mass 1.
C20_ExactlyOneZeroState ==
    (pcA = "loop" /\ time = 0) =>
        /\ OneZeroState
        /\ \A k \in DOMAIN states :
              prStates[k] = (IF states[k] = 0 THEN One ELSE Zero)
        /\ Sum(prStates) = One

====
